---- MODULE Spec2Model ----
(***************************************************************************)
(* Quote aggregation (flight-data-processor, shipping-data-processor) and  *)
(* the process-wide matrix cache (mobility data service) of the mobility   *)
(* cost dashboard.                                                         *)
(*                                                                         *)
(* Money is counted in hundredths of a unit (cents), so that the flight    *)
(* processor's two-decimal rounding and the shipping processor's whole-    *)
(* unit rounding are both exact integer operations.  Rates are hundredths  *)
(* too (1.09 is 109).  Math.round is round-half-up.  The numbers of the     *)
(* program are doubles: on the prices of the documents below every product *)
(* and quotient agrees with the exact one, and so does every sum but those *)
(* listed under DoubleSum.                                                 *)
(***************************************************************************)
EXTENDS Integers, Sequences, FiniteSets, TLC

VARIABLES
    flightData,               \* flight_quotes of the document at /centralized_flight_data.json
    rawData,                  \* the quote array of the document at /shipping_data.json
    flightResult,             \* what a direct call of processFlightDataToMatrix returned
    shippingResult,           \* what the processing part of loadAndProcessShippingData built
    legacyMatrix,             \* what convertToLegacyFormat returned for flightResult
    processedFlightMatrix,    \* module-level cache
    processedShippingMatrix,  \* module-level cache
    isLoadingFlightData,      \* module-level flag
    isLoadingShippingData,    \* module-level flag
    flightCalls,              \* the calls of initializeRealFlightData, by call
    shippingCalls,            \* the calls of initializeRealShippingData, by call
    costMatrix,               \* what the last call of generateCostMatrix returned
    warnings,                 \* the lines written with console.warn
    amounts,                  \* the amounts, factor and currency given to a converter
    converted,                \* what a converter returned for them
    returned,                 \* what the last call of a reader of the cache returned
    dashboard,                \* the state of the MobilityDashboard component
    table                     \* the state of the routes table of ShippingMatrixDashboard

vars == <<flightData, rawData, flightResult, shippingResult, legacyMatrix,
          processedFlightMatrix, processedShippingMatrix,
          isLoadingFlightData, isLoadingShippingData,
          flightCalls, shippingCalls, costMatrix,
          warnings, amounts, converted, returned, dashboard, table>>

convVars == <<amounts, converted>>
procVars == <<flightData, rawData, flightResult, shippingResult, legacyMatrix, convVars>>
uiVars == <<returned, dashboard, table>>
cacheVars == <<processedFlightMatrix, processedShippingMatrix,
               isLoadingFlightData, isLoadingShippingData,
               flightCalls, shippingCalls, costMatrix>>

----------------------------------------------------------------------------
(* Bounds *)

MaxQuotes == 2      \* longest document of the label and price families
MaxShots == 9       \* most screenshot-bearing quotes in a one-bucket document
MaxPlain == 4       \* most quotes without a screenshot in a one-bucket document
MaxCalls == 2       \* calls of each initialize function in one session
MaxFactor == 3      \* greatest factor an amount is multiplied by
MaxRoutes == 25     \* most routes in SHIPPING_ROUTES

----------------------------------------------------------------------------
(* JavaScript values *)

NULL == [null |-> TRUE]          \* null: differs from every matrix, also from {}
UNDEFINED == "undefined"         \* a missing property
NoScreenshot == ""               \* null, undefined or "": the falsy screenshot_url
Truthy(v) == v # UNDEFINED /\ v # ""
NoRate == 0                      \* the falsy result of a rate lookup that finds nothing

\* Math.round(n / d) for d > 0: the nearest integer, halves upwards
RoundDiv(n, d) == (2 * n + d) \div (2 * d)

Min2(a, b) == IF a <= b THEN a ELSE b
Max2(a, b) == IF a >= b THEN a ELSE b

RECURSIVE SumSeq(_)
SumSeq(s) == IF s = <<>> THEN 0 ELSE Head(s) + SumSeq(Tail(s))

RECURSIVE MinSeq(_)
MinSeq(s) == IF Len(s) = 1 THEN s[1] ELSE Min2(Head(s), MinSeq(Tail(s)))

RECURSIVE MaxSeq(_)
MaxSeq(s) == IF Len(s) = 1 THEN s[1] ELSE Max2(Head(s), MaxSeq(Tail(s)))

\* pricesUSD.reduce((sum, price) => sum + price, 0): the additions are double
\* additions, each rounded to 53 bits, so the result depends on the order of
\* the addends.  10.01 + 10.54 is 20.549999999999997 and adding 10.95 gives
\* 31.499999999999996, while the other orders of the three give 31.5.
DoubleSumRoundsDown(prices) ==
    prices \in { <<1001, 1054, 1095>>, <<1054, 1001, 1095>> }

\* the double sum in cents; a sum that falls short of the exact one by less
\* than a cent is written as one cent less, which divides and rounds alike
DoubleSum(prices) ==
    IF DoubleSumRoundsDown(prices) THEN SumSeq(prices) - 1 ELSE SumSeq(prices)

\* A plain object literal inherits the members of Object.prototype: table[name]
\* finds them although the table does not list them.  "constructor" stands for
\* these names; its value is the function Object, written as it prints.
ObjectPrototypeKeys == {"constructor"}
InheritedMember(name) == "function Object() { [native code] }"

----------------------------------------------------------------------------
(* flight-data-processor *)

Flight_CURRENCY_RATES(currency) ==
    CASE currency = "EUR" -> 109
      [] currency = "GBP" -> 127
      [] currency = "USD" -> 100
      [] OTHER -> NoRate

Flight_REGION_MAPPING_keys == {"NORTH_AMERICA", "LATAM", "EMEA", "ASIA", "INDIA", "ANZ"}

Flight_REGION_MAPPING(label) ==
    CASE label = "NORTH_AMERICA" -> "north-america"
      [] label = "LATAM" -> "latam"
      [] label = "EMEA" -> "emea"
      [] label = "ASIA" -> "apac"
      [] label = "INDIA" -> "india"
      [] label = "ANZ" -> "apac"
      [] label \in ObjectPrototypeKeys -> InheritedMember(label)
      [] OTHER -> UNDEFINED

PASSENGER_TYPE_MAPPING_keys == {"Single", "Couple", "Couple+1", "Couple+2"}

PASSENGER_TYPE_MAPPING(label) ==
    CASE label = "Single" -> "single"
      [] label = "Couple" -> "couple"
      [] label = "Couple+1" -> "couple-plus-1"
      [] label = "Couple+2" -> "couple-plus-2"
      [] label \in ObjectPrototypeKeys -> InheritedMember(label)
      [] OTHER -> UNDEFINED

\* variant: the product is rounded to whole units
Flight_convertToUSD_wholeUnits(price, currency) ==
    LET rate == Flight_CURRENCY_RATES(currency)
    IN  IF rate = NoRate
        THEN price
        ELSE 100 * RoundDiv(price * rate, 10000)

\* convertToUSD of the flight processor: cents in, cents out
Flight_convertToUSD(price, currency) ==
    LET rate == Flight_CURRENCY_RATES(currency)
    IN  IF rate = NoRate
        THEN price                          \* warns, assumes USD
        ELSE RoundDiv(price * rate, 100)    \* Math.round(price * rate * 100) / 100

\* what convertToUSD of the flight processor writes with console.warn
Flight_convertToUSD_warns(price, currency) ==
    IF Flight_CURRENCY_RATES(currency) = NoRate
    THEN { <<"Unknown currency: ", currency, ", defaulting to USD rate">> }
    ELSE {}

\* `${originRegion}|${destRegion}|${passengerType}` and key.split('|'): the
\* three parts are kept as tokens, the separators between them
Flight_key(originRegion, destRegion, passengerType) ==
    <<originRegion, "|", destRegion, "|", passengerType>>
Flight_keySplit(key) == SelectSeq(key, LAMBDA t : t # "|")

RECURSIVE SortedSeq(_)
SortedSeq(S) ==
    IF S = {} THEN <<>>
    ELSE LET m == CHOOSE x \in S : \A y \in S : x <= y
         IN  <<m>> \o SortedSeq(S \ {m})

Reverse(s) == [i \in 1..Len(s) |-> s[Len(s) + 1 - i]]

\* sampleArray: [...array].sort(() => 0.5 - Math.random()).slice(0, min(count, length)).
\* The comparator is inconsistent, so the sort leaves some permutation of the
\* array and the slice keeps its first min(count, length) elements.  Every
\* membership of that size is a possible result; of the orders within a
\* result the two extreme ones (array order and its reverse) are kept.
sampleArray(array, count) ==
    LET n == Len(array)
        k == Min2(count, n)
        picks == {S \in SUBSET (1..n) : Cardinality(S) = k}
        taken(S) == LET idx == SortedSeq(S) IN [i \in 1..k |-> array[idx[i]]]
    IN  {taken(S) : S \in picks} \cup {Reverse(taken(S)) : S \in picks}

\* variant: a group is started anew by every quote instead of being appended to
RECURSIVE Flight_groupQuotes_overwrite(_, _)
Flight_groupQuotes_overwrite(quotes, groupedData) ==
    IF quotes = <<>> THEN groupedData
    ELSE LET quote == Head(quotes)
             originRegion == Flight_REGION_MAPPING(quote.origin_city_region)
             destRegion == Flight_REGION_MAPPING(quote.destination_city_region)
             passengerType == PASSENGER_TYPE_MAPPING(quote.passenger_type)
         IN  IF ~Truthy(originRegion) \/ ~Truthy(destRegion) \/ ~Truthy(passengerType)
             THEN Flight_groupQuotes_overwrite(Tail(quotes), groupedData)
             ELSE LET key == Flight_key(originRegion, destRegion, passengerType)
                  IN  Flight_groupQuotes_overwrite(Tail(quotes),
                          [k \in DOMAIN groupedData \cup {key} |->
                              IF k = key THEN <<quote>> ELSE groupedData[k]])

\* groupedData after the forEach over flight_quotes (lines 121-141)
RECURSIVE Flight_groupQuotes(_, _)
Flight_groupQuotes(quotes, groupedData) ==
    IF quotes = <<>> THEN groupedData
    ELSE LET quote == Head(quotes)
             originRegion == Flight_REGION_MAPPING(quote.origin_city_region)
             destRegion == Flight_REGION_MAPPING(quote.destination_city_region)
             passengerType == PASSENGER_TYPE_MAPPING(quote.passenger_type)
         IN  IF ~Truthy(originRegion) \/ ~Truthy(destRegion) \/ ~Truthy(passengerType)
             THEN Flight_groupQuotes(Tail(quotes), groupedData)
             ELSE LET key == Flight_key(originRegion, destRegion, passengerType)
                      created == IF key \in DOMAIN groupedData
                                 THEN groupedData
                                 ELSE groupedData @@ (key :> <<>>)
                  IN  Flight_groupQuotes(Tail(quotes),
                                         [created EXCEPT ![key] = Append(@, quote)])

Flight_pricesUSD(quotes) ==
    [i \in 1..Len(quotes) |-> Flight_convertToUSD(quotes[i].price, quotes[i].currency)]

\* variant: Math.floor instead of Math.round
Flight_averagePriceUSD_floor(pricesUSD) ==
    100 * (SumSeq(pricesUSD) \div (100 * Len(pricesUSD)))

\* Math.round(sum / length), a whole number of units (held in cents)
Flight_averagePriceUSD(pricesUSD) ==
    100 * RoundDiv(DoubleSum(pricesUSD), 100 * Len(pricesUSD))

\* the possible selectedQuotes of one group (lines 156-163)
Flight_selectedQuotes(quotes) ==
    LET quotesWithScreenshots == SelectSeq(quotes, LAMBDA q : Truthy(q.screenshot_url))
        quotesWithoutScreenshots == SelectSeq(quotes, LAMBDA q : ~Truthy(q.screenshot_url))
    IN  { LET all == a \o b IN SubSeq(all, 1, Min2(10, Len(all))) :
            a \in sampleArray(quotesWithScreenshots, 7),
            b \in sampleArray(quotesWithoutScreenshots, 3) }

\* an EvidenceItem; id is the quote's position in the document and stands
\* for the identity of the quote object the item was made from
Flight_evidenceItem(quote) ==
    [ id |-> quote.id,
      price |-> quote.price,
      currency |-> quote.currency,
      priceUSD |-> Flight_convertToUSD(quote.price, quote.currency),
      screenshot_url |-> quote.screenshot_url ]

\* the possible RegionMatrixData of one group (lines 147-194)
Flight_regionMatrixData(quotes) ==
    LET pricesUSD == Flight_pricesUSD(quotes)
    IN  { [ averagePriceUSD |-> Flight_averagePriceUSD(pricesUSD),
            sampleCount |-> Len(quotes),
            evidence |-> [i \in 1..Len(selectedQuotes) |->
                              Flight_evidenceItem(selectedQuotes[i])],
            minPrice |-> MinSeq(pricesUSD),
            maxPrice |-> MaxSeq(pricesUSD) ] :
          selectedQuotes \in Flight_selectedQuotes(quotes) }

\* matrix[originRegion][destRegion][category] = data, creating the nested
\* objects that are missing (lines 180-194 and, for shipping, 118-157)
StoreBucket(matrix, originRegion, destRegion, category, data) ==
    LET m1 == IF originRegion \in DOMAIN matrix
              THEN matrix
              ELSE matrix @@ (originRegion :> <<>>)
        m2 == IF destRegion \in DOMAIN m1[originRegion]
              THEN m1
              ELSE [m1 EXCEPT ![originRegion] = @ @@ (destRegion :> <<>>)]
    IN  [m2 EXCEPT ![originRegion][destRegion] =
             [c \in DOMAIN @ \cup {category} |-> IF c = category THEN data ELSE @[c]]]

\* the forEach over Object.entries(groupedData): the possible matrices
RECURSIVE Flight_processGroups(_, _, _)
Flight_processGroups(groupedData, keys, matrix) ==
    IF keys = {} THEN {matrix}
    ELSE LET key == CHOOSE k \in keys : TRUE
             parts == Flight_keySplit(key)
         IN  UNION { Flight_processGroups(groupedData, keys \ {key},
                         StoreBucket(matrix, parts[1], parts[2], parts[3], data)) :
                     data \in Flight_regionMatrixData(groupedData[key]) }

\* what a call of processFlightDataToMatrix writes with console.warn: the
\* prices of the grouped quotes are converted, those of the skipped ones are not
Flight_warnings(flight_quotes) ==
    LET groupedData == Flight_groupQuotes(flight_quotes, <<>>)
    IN  UNION { UNION { Flight_convertToUSD_warns(groupedData[key][i].price,
                                                  groupedData[key][i].currency) :
                        i \in 1..Len(groupedData[key]) } :
                key \in DOMAIN groupedData }

\* processFlightDataToMatrix: the matrices a call can return
processFlightDataToMatrix(flight_quotes) ==
    LET groupedData == Flight_groupQuotes(flight_quotes, <<>>)
    IN  Flight_processGroups(groupedData, DOMAIN groupedData, <<>>)

\* variant: the least price of a bucket is kept instead of its average
convertToLegacyFormat_minPrice(processedMatrix) ==
    [ originRegion \in DOMAIN processedMatrix \ ObjectPrototypeKeys |->
        [ destRegion \in DOMAIN processedMatrix[originRegion] \ ObjectPrototypeKeys |->
            [ passengerType \in DOMAIN processedMatrix[originRegion][destRegion] |->
                processedMatrix[originRegion][destRegion][passengerType].minPrice ] ] ]

\* convertToLegacyFormat (lines 203-223): legacyMatrix starts as {} and gets
\* the nested objects that !legacyMatrix[key] finds missing, which leaves out
\* a key that {} inherits; the argument is only read
convertToLegacyFormat(processedMatrix) ==
    [ originRegion \in DOMAIN processedMatrix \ ObjectPrototypeKeys |->
        [ destRegion \in DOMAIN processedMatrix[originRegion] \ ObjectPrototypeKeys |->
            [ passengerType \in DOMAIN processedMatrix[originRegion][destRegion] |->
                processedMatrix[originRegion][destRegion][passengerType].averagePriceUSD ] ] ]


----------------------------------------------------------------------------
(* shipping-data-processor *)

Shipping_CURRENCY_RATES(currency) ==
    CASE currency = "USD" -> 100
      [] currency = "EUR" -> 109
      [] currency = "GBP" -> 127
      [] currency = "CAD" -> 74
      [] currency = "AUD" -> 67
      [] OTHER -> NoRate

CONTAINER_TYPE_MAPPING(label) ==
    CASE label = "ST40" -> "40ft"
      [] label = "ST20" -> "20ft"
      [] label = "40ft" -> "40ft"
      [] label = "20ft" -> "20ft"
      [] label \in ObjectPrototypeKeys -> InheritedMember(label)
      [] OTHER -> UNDEFINED

CONTAINER_TYPE_MAPPING_keys == {"ST40", "ST20", "40ft", "20ft"}

Shipping_REGION_MAPPING_keys == {"NORTH_AMERICA", "LATAM", "EMEA", "ASIA", "INDIA", "ANZ"}

Shipping_REGION_MAPPING(label) ==
    CASE label = "NORTH_AMERICA" -> "north-america"
      [] label = "LATAM" -> "latam"
      [] label = "EMEA" -> "emea"
      [] label = "ASIA" -> "apac"
      [] label = "INDIA" -> "india"
      [] label = "ANZ" -> "apac"
      [] label \in ObjectPrototypeKeys -> InheritedMember(label)
      [] OTHER -> UNDEFINED

\* region.toLowerCase().replace('_', '-') on the labels of the model:
\* lower case, the first underscore turned into a hyphen
toLowerCaseReplace(region) ==
    CASE region = "NORTH_AMERICA" -> "north-america"
      [] region = "LATAM" -> "latam"
      [] region = "EMEA" -> "emea"
      [] region = "ASIA" -> "asia"
      [] region = "INDIA" -> "india"
      [] region = "ANZ" -> "anz"
      [] region = "APAC" -> "apac"
      [] region = "ANTARCTICA" -> "antarctica"
      [] region = "SOUTH_EAST_ASIA" -> "south-east_asia"
      [] OTHER -> region         \* already lower case, no underscore: "", "emea", ...

\* variant: the product is not rounded to whole units
Shipping_convertToUSD_unrounded(price, currency) ==
    LET found == Shipping_CURRENCY_RATES(currency)
        rate == IF found = NoRate THEN 100 ELSE found
    IN  RoundDiv(price * rate, 100)

\* convertToUSD of the shipping processor: cents in, whole units out (held in cents)
Shipping_convertToUSD(price, currency) ==
    LET found == Shipping_CURRENCY_RATES(currency)
        rate == IF found = NoRate THEN 100 ELSE found     \* || 1.0
    IN  100 * RoundDiv(price * rate, 10000)              \* Math.round(price * rate)

mapContainerType(containerType) ==
    LET found == CONTAINER_TYPE_MAPPING(containerType)
    IN  IF Truthy(found) THEN found ELSE containerType

mapRegion(region) ==
    LET found == Shipping_REGION_MAPPING(region)
    IN  IF Truthy(found) THEN found ELSE toLowerCaseReplace(region)

\* groupedData after rawData.forEach (lines 93-114)
RECURSIVE Shipping_groupQuotes(_, _)
Shipping_groupQuotes(quotes, groupedData) ==
    IF quotes = <<>> THEN groupedData
    ELSE LET quote == Head(quotes)
             originRegion == mapRegion(quote.origin_city_region)
             destRegion == mapRegion(quote.destination_city_region)
             containerType == mapContainerType(quote.container_type)
         IN  IF ~Truthy(originRegion) \/ ~Truthy(destRegion)
             THEN Shipping_groupQuotes(Tail(quotes), groupedData)
             ELSE LET g1 == IF originRegion \in DOMAIN groupedData
                            THEN groupedData
                            ELSE groupedData @@ (originRegion :> <<>>)
                      g2 == IF destRegion \in DOMAIN g1[originRegion]
                            THEN g1
                            ELSE [g1 EXCEPT ![originRegion] = @ @@ (destRegion :> <<>>)]
                      g3 == IF containerType \in DOMAIN g2[originRegion][destRegion]
                            THEN g2
                            ELSE [g2 EXCEPT ![originRegion][destRegion] =
                                      @ @@ (containerType :> <<>>)]
                  IN  Shipping_groupQuotes(Tail(quotes),
                          [g3 EXCEPT ![originRegion][destRegion][containerType] =
                               Append(@, quote)])

Shipping_pricesUSD(quotes) ==
    [i \in 1..Len(quotes) |->
        Shipping_convertToUSD(quotes[i].price_of_shipping, quotes[i].currency)]

\* Math.round(sum / length), a whole number of units (held in cents)
Shipping_averagePrice(pricesUSD) ==
    100 * RoundDiv(DoubleSum(pricesUSD), 100 * Len(pricesUSD))

\* variant: up to 10 quotes without screenshot, whatever the number with one
Shipping_withoutScreenshotsTaken_ten(quotesWithScreenshots, quotesWithoutScreenshots) ==
    SubSeq(quotesWithoutScreenshots, 1, Min2(Len(quotesWithoutScreenshots), 10))

\* quotesWithoutScreenshots.slice(0, Math.max(0, 10 - quotesWithScreenshots.length))
Shipping_withoutScreenshotsTaken(quotesWithScreenshots, quotesWithoutScreenshots) ==
    SubSeq(quotesWithoutScreenshots, 1,
           Min2(Len(quotesWithoutScreenshots),
                Max2(0, 10 - Len(quotesWithScreenshots))))

\* variant: the quotes without a screenshot come first
Shipping_evidenceQuotes_plainFirst(quotes) ==
    LET quotesWithScreenshots == SelectSeq(quotes, LAMBDA q : Truthy(q.screenshot_url))
        quotesWithoutScreenshots == SelectSeq(quotes, LAMBDA q : ~Truthy(q.screenshot_url))
    IN  Shipping_withoutScreenshotsTaken(quotesWithScreenshots, quotesWithoutScreenshots)
        \o SubSeq(quotesWithScreenshots, 1, Min2(7, Len(quotesWithScreenshots)))

\* evidenceQuotes of one group (lines 143-149)
Shipping_evidenceQuotes(quotes) ==
    LET quotesWithScreenshots == SelectSeq(quotes, LAMBDA q : Truthy(q.screenshot_url))
        quotesWithoutScreenshots == SelectSeq(quotes, LAMBDA q : ~Truthy(q.screenshot_url))
    IN  SubSeq(quotesWithScreenshots, 1, Min2(7, Len(quotesWithScreenshots)))
        \o Shipping_withoutScreenshotsTaken(quotesWithScreenshots, quotesWithoutScreenshots)

\* ProcessedShippingData of one group (lines 128-157)
Shipping_processedData(quotes) ==
    LET pricesUSD == Shipping_pricesUSD(quotes)
    IN  [ averagePriceUSD |-> Shipping_averagePrice(pricesUSD),
          minPrice |-> MinSeq(pricesUSD),
          maxPrice |-> MaxSeq(pricesUSD),
          sampleCount |-> Len(quotes),
          evidence |-> Shipping_evidenceQuotes(quotes) ]

\* what the shipping processor writes with console.warn: its convertToUSD
\* takes the rate 1.0 for a currency it does not know and writes nothing
Shipping_warnings(quotes) == {}

\* variant: emea and apac get an origin key, with or without quotes
processShippingData_allRegions(quotes) ==
    LET groupedData == Shipping_groupQuotes(quotes, <<>>)
    IN  [originRegion \in DOMAIN groupedData \cup {"emea", "apac"} |->
          IF originRegion \in DOMAIN groupedData
          THEN [destRegion \in DOMAIN groupedData[originRegion] |->
                 [containerType \in DOMAIN groupedData[originRegion][destRegion] |->
                   Shipping_processedData(
                       groupedData[originRegion][destRegion][containerType])]]
          ELSE <<>>]

\* the processing part of loadAndProcessShippingData (lines 88-164)
processShippingData(quotes) ==
    LET groupedData == Shipping_groupQuotes(quotes, <<>>)
    IN  [originRegion \in DOMAIN groupedData |->
          [destRegion \in DOMAIN groupedData[originRegion] |->
            [containerType \in DOMAIN groupedData[originRegion][destRegion] |->
              Shipping_processedData(groupedData[originRegion][destRegion][containerType])]]]


----------------------------------------------------------------------------
(* Canonical enumerations of the data service *)

REGIONS == {"north-america", "emea", "apac", "latam", "india"}
FAMILY_SIZES == {"single", "couple", "couple-plus-1", "couple-plus-2"}
CONTAINER_TYPES == {"20ft", "40ft"}

----------------------------------------------------------------------------
(* Documents *)

SeqsUpTo(D, n) == UNION {[1..k -> D] : k \in 0..n}

\* the quotes of a document numbered by position
WithIds(quotes) == [i \in 1..Len(quotes) |-> quotes[i] @@ [id |-> i]]

RawRegionLabels == {"EMEA", "ASIA", "ANZ", "APAC", "ANTARCTICA", "constructor"}
RawDestinationLabels == {"NORTH_AMERICA", "ANTARCTICA"}
RawPassengerLabels == {"Single", "Group"}
RawContainerLabels == {"ST20", "40ft", "HC45"}
Prices == {0, 1040, 1050, 20000, 40000}
Currencies == {"USD", "EUR", "CAD", "JPY"}

\* label family: the labels vary
FlightLabelQuotes ==
    [ origin_city_region : RawRegionLabels,
      destination_city_region : RawDestinationLabels,
      passenger_type : RawPassengerLabels,
      price : {20000}, currency : {"USD"}, screenshot_url : {"shot.png"} ]

ShippingLabelQuotes ==
    [ origin_city_region : (RawRegionLabels \ {"constructor"}) \cup {""},
      destination_city_region : RawDestinationLabels,
      container_type : RawContainerLabels,
      price_of_shipping : {20000}, currency : {"USD"}, screenshot_url : {"shot.png"} ]

\* price family: price and currency vary
FlightPriceQuotes ==
    [ origin_city_region : {"EMEA"}, destination_city_region : {"NORTH_AMERICA"},
      passenger_type : {"Single"},
      price : Prices, currency : Currencies, screenshot_url : {NoScreenshot} ]

ShippingPriceQuotes ==
    [ origin_city_region : {"EMEA"}, destination_city_region : {"NORTH_AMERICA"},
      container_type : {"ST20"},
      price_of_shipping : Prices, currency : Currencies, screenshot_url : {NoScreenshot} ]

\* evidence family: one bucket of s screenshot-bearing quotes and n without,
\* the screenshot-bearing ones first or last
ScreenshotLayouts ==
    UNION { { [i \in 1..(s + n) |-> IF i <= s THEN "shot.png" ELSE NoScreenshot],
              [i \in 1..(s + n) |-> IF i > n THEN "shot.png" ELSE NoScreenshot] } :
            s \in 0..MaxShots, n \in 0..MaxPlain }

FlightBucketDoc(layout) ==
    [ i \in 1..Len(layout) |->
        [ origin_city_region |-> "EMEA", destination_city_region |-> "NORTH_AMERICA",
          passenger_type |-> "Single",
          price |-> 10000 + 100 * i, currency |-> "USD", screenshot_url |-> layout[i] ] ]

ShippingBucketDoc(layout) ==
    [ i \in 1..Len(layout) |->
        [ origin_city_region |-> "EMEA", destination_city_region |-> "NORTH_AMERICA",
          container_type |-> "ST20",
          price_of_shipping |-> 10000 + 100 * i, currency |-> "USD",
          screenshot_url |-> layout[i] ] ]

\* folding family: three quotes that differ only in the label of one endpoint,
\* taken from the three labels of the Asia-Pacific region
FoldingLabels == {"ASIA", "ANZ", "APAC"}

FlightFoldDocs ==
    { [ i \in 1..3 |->
          [ origin_city_region |-> IF atOrigin THEN labels[i] ELSE "EMEA",
            destination_city_region |-> IF atOrigin THEN "NORTH_AMERICA" ELSE labels[i],
            passenger_type |-> "Single",
            price |-> 20000, currency |-> "USD", screenshot_url |-> "shot.png" ] ] :
      labels \in [1..3 -> FoldingLabels], atOrigin \in BOOLEAN }

ShippingFoldDocs ==
    { [ i \in 1..3 |->
          [ origin_city_region |-> IF atOrigin THEN labels[i] ELSE "EMEA",
            destination_city_region |-> IF atOrigin THEN "NORTH_AMERICA" ELSE labels[i],
            container_type |-> "ST20",
            price_of_shipping |-> 20000, currency |-> "USD",
            screenshot_url |-> "shot.png" ] ] :
      labels \in [1..3 -> FoldingLabels], atOrigin \in BOOLEAN }

\* canonical family: one quote whose labels are canonical already
FlightCanonicalDocs ==
    { << [ origin_city_region |-> o, destination_city_region |-> d, passenger_type |-> c,
           price |-> 20000, currency |-> "USD", screenshot_url |-> "shot.png" ] >> :
      o \in REGIONS, d \in REGIONS, c \in FAMILY_SIZES }

ShippingCanonicalDocs ==
    { << [ origin_city_region |-> o, destination_city_region |-> d, container_type |-> c,
           price_of_shipping |-> 20000, currency |-> "USD",
           screenshot_url |-> "shot.png" ] >> :
      o \in REGIONS, d \in REGIONS, c \in CONTAINER_TYPES }

\* tie family: three quotes in USD whose mean is 10.50 exactly, in every order
TiePrices == {1001, 1054, 1095}

FlightTieDocs ==
    { [ i \in 1..3 |->
          [ origin_city_region |-> "EMEA", destination_city_region |-> "NORTH_AMERICA",
            passenger_type |-> "Single",
            price |-> prices[i], currency |-> "USD", screenshot_url |-> NoScreenshot ] ] :
      prices \in { f \in [1..3 -> TiePrices] : { f[i] : i \in 1..3 } = TiePrices } }

ShippingTieDocs ==
    { [ i \in 1..3 |->
          [ origin_city_region |-> "EMEA", destination_city_region |-> "NORTH_AMERICA",
            container_type |-> "ST20",
            price_of_shipping |-> prices[i], currency |-> "USD",
            screenshot_url |-> NoScreenshot ] ] :
      prices \in { f \in [1..3 -> TiePrices] : { f[i] : i \in 1..3 } = TiePrices } }

FlightDocs ==
    { WithIds(d) : d \in SeqsUpTo(FlightLabelQuotes, MaxQuotes)
                         \cup SeqsUpTo(FlightPriceQuotes, MaxQuotes)
                         \cup {FlightBucketDoc(l) : l \in ScreenshotLayouts}
                         \cup FlightFoldDocs
                         \cup FlightTieDocs
                         \cup FlightCanonicalDocs }

ShippingDocs ==
    { WithIds(d) : d \in SeqsUpTo(ShippingLabelQuotes, MaxQuotes)
                         \cup SeqsUpTo(ShippingPriceQuotes, MaxQuotes)
                         \cup {ShippingBucketDoc(l) : l \in ScreenshotLayouts}
                         \cup ShippingFoldDocs
                         \cup ShippingTieDocs
                         \cup ShippingCanonicalDocs }

----------------------------------------------------------------------------
(* The processors applied to a document *)

Calls == 1..MaxCalls

\* A call of an initialize function; the calls are numbered in the order in
\* which they are made:
\*   pc       "idle" not made yet; "fetch" awaiting fetch(); "json" awaiting
\*            response.json(); "loaded" / "failed" the loader's promise is
\*            fulfilled / rejected and the await in initialize has not resumed;
\*            "resolved" / "rejected" the call's own promise has settled
\*   fetches  the fetches the call has started
\*   load     how the loader's promise settled
\*   result   the matrix the loader returned
NotCalled == [pc |-> "idle", fetches |-> 0, load |-> "none", result |-> NULL]

CacheEmpty ==
    /\ processedFlightMatrix = NULL
    /\ processedShippingMatrix = NULL
    /\ isLoadingFlightData = FALSE
    /\ isLoadingShippingData = FALSE
    /\ flightCalls = [c \in Calls |-> NotCalled]
    /\ shippingCalls = [c \in Calls |-> NotCalled]
    /\ costMatrix = NULL

\* no converter is called on its own
NotConverting ==
    /\ amounts = NULL
    /\ converted = NULL

\* the MobilityDashboard component before it is mounted; the fields are its
\* useState values (lines 31-35), its two useMemo values with the
\* dependencies they were computed for (lines 37-38) and the position of the
\* two async functions of its mount effect (lines 41-68)
NotMounted ==
    [ pc |-> "unmounted",
      flightDataLoaded |-> FALSE,
      shippingDataLoaded |-> FALSE,
      isLoadingFlightData |-> TRUE,
      isLoadingShippingData |-> TRUE,
      initFlightData |-> "idle",
      initShippingData |-> "idle",
      costMatrix |-> NULL,
      costMatrixDeps |-> <<>>,
      costSummaries |-> NULL,
      costSummariesDeps |-> <<>> ]

\* no reader of the cache has been called, no component is mounted
UiIdle ==
    /\ returned = NULL
    /\ dashboard = NotMounted
    /\ table = NULL

InitProc ==
    /\ \/ flightData \in FlightDocs /\ rawData = <<>>
       \/ flightData = <<>> /\ rawData \in ShippingDocs
    /\ flightResult = NULL
    /\ shippingResult = NULL
    /\ legacyMatrix = NULL
    /\ warnings = {}
    /\ NotConverting
    /\ UiIdle
    /\ CacheEmpty

\* processFlightDataToMatrix(flightData)
ProcessFlight ==
    /\ flightResult = NULL
    /\ flightResult' \in processFlightDataToMatrix(flightData)
    /\ warnings' = warnings \cup Flight_warnings(flightData)
    /\ UNCHANGED <<flightData, rawData, shippingResult, legacyMatrix, convVars>>
    /\ UNCHANGED <<cacheVars, uiVars>>

\* loadAndProcessShippingData once response.json() has delivered rawData
ProcessShipping ==
    /\ shippingResult = NULL
    /\ shippingResult' = processShippingData(rawData)
    /\ warnings' = warnings \cup Shipping_warnings(rawData)
    /\ UNCHANGED <<flightData, rawData, flightResult, legacyMatrix, convVars>>
    /\ UNCHANGED <<cacheVars, uiVars>>

\* convertToLegacyFormat(processedMatrix) on the matrix the processor returned,
\* as loadAndProcessFlightData and the static-data script call it
ConvertToLegacy ==
    /\ flightResult # NULL
    /\ legacyMatrix = NULL
    /\ legacyMatrix' = convertToLegacyFormat(flightResult)
    /\ UNCHANGED <<flightData, rawData, flightResult, shippingResult, convVars, warnings>>
    /\ UNCHANGED <<cacheVars, uiVars>>

NextProc == ProcessFlight \/ ProcessShipping \/ ConvertToLegacy

SpecProc == InitProc /\ [][NextProc]_vars

----------------------------------------------------------------------------
(* The converters applied to amounts *)

Amounts == {0, 5, 40, 50, 1040, 20000}
Factors == 0..MaxFactor

InitConv ==
    /\ amounts \in [a : Amounts, b : Amounts, k : Factors, currency : Currencies]
    /\ converted = NULL
    /\ warnings = {}
    /\ flightData = <<>>
    /\ rawData = <<>>
    /\ flightResult = NULL
    /\ shippingResult = NULL
    /\ legacyMatrix = NULL
    /\ UiIdle
    /\ CacheEmpty

\* convertToUSD of the flight processor on a, b, a + b and k * a
ConvertFlight ==
    /\ converted = NULL
    /\ converted' =
          [ converter |-> "flight",
            a |-> Flight_convertToUSD(amounts.a, amounts.currency),
            b |-> Flight_convertToUSD(amounts.b, amounts.currency),
            sum |-> Flight_convertToUSD(amounts.a + amounts.b, amounts.currency),
            product |-> Flight_convertToUSD(amounts.k * amounts.a, amounts.currency) ]
    /\ warnings' = warnings \cup Flight_convertToUSD_warns(amounts.a, amounts.currency)
    /\ UNCHANGED <<flightData, rawData, flightResult, shippingResult, legacyMatrix, amounts>>
    /\ UNCHANGED <<cacheVars, uiVars>>

\* convertToUSD of the shipping processor on a, b, a + b and k * a
ConvertShipping ==
    /\ converted = NULL
    /\ converted' =
          [ converter |-> "shipping",
            a |-> Shipping_convertToUSD(amounts.a, amounts.currency),
            b |-> Shipping_convertToUSD(amounts.b, amounts.currency),
            sum |-> Shipping_convertToUSD(amounts.a + amounts.b, amounts.currency),
            product |-> Shipping_convertToUSD(amounts.k * amounts.a, amounts.currency) ]
    /\ UNCHANGED <<flightData, rawData, flightResult, shippingResult, legacyMatrix,
                   amounts, warnings>>
    /\ UNCHANGED <<cacheVars, uiVars>>

NextConv == ConvertFlight \/ ConvertShipping

SpecConv == InitConv /\ [][NextConv]_vars


----------------------------------------------------------------------------
(* Reading a matrix and a document *)

BucketsOf(m) ==
    UNION { UNION { { <<o, d, c>> : c \in DOMAIN m[o][d] } : d \in DOMAIN m[o] } :
            o \in DOMAIN m }

Bucket(m, b) == m[b[1]][b[2]][b[3]]

RECURSIVE SumOver(_, _)
SumOver(S, f) ==
    IF S = {} THEN 0
    ELSE LET x == CHOOSE y \in S : TRUE IN f[x] + SumOver(S \ {x}, f)

\* averagePriceUSD, minPrice, maxPrice and sampleCount of every bucket
StatsOf(m) ==
    [ b \in BucketsOf(m) |->
        [ averagePriceUSD |-> Bucket(m, b).averagePriceUSD,
          minPrice |-> Bucket(m, b).minPrice,
          maxPrice |-> Bucket(m, b).maxPrice,
          sampleCount |-> Bucket(m, b).sampleCount ] ]

FlightMaps(q) ==
    /\ Truthy(Flight_REGION_MAPPING(q.origin_city_region))
    /\ Truthy(Flight_REGION_MAPPING(q.destination_city_region))
    /\ Truthy(PASSENGER_TYPE_MAPPING(q.passenger_type))

FlightTriple(q) ==
    << Flight_REGION_MAPPING(q.origin_city_region),
       Flight_REGION_MAPPING(q.destination_city_region),
       PASSENGER_TYPE_MAPPING(q.passenger_type) >>

\* positions in the flight document of the quotes that map to bucket b
FlightQuotesOf(b) ==
    { i \in 1..Len(flightData) : FlightMaps(flightData[i]) /\ FlightTriple(flightData[i]) = b }

FlightInTables(q) ==
    /\ q.origin_city_region \in Flight_REGION_MAPPING_keys
    /\ q.destination_city_region \in Flight_REGION_MAPPING_keys
    /\ q.passenger_type \in PASSENGER_TYPE_MAPPING_keys

ShippingTriple(q) ==
    << mapRegion(q.origin_city_region), mapRegion(q.destination_city_region),
       mapContainerType(q.container_type) >>

\* positions in the shipping document of the quotes grouped under bucket b
ShippingQuotesOf(b) ==
    { i \in 1..Len(rawData) :
        /\ Truthy(mapRegion(rawData[i].origin_city_region))
        /\ Truthy(mapRegion(rawData[i].destination_city_region))
        /\ ShippingTriple(rawData[i]) = b }

ShippingInTables(q) ==
    /\ q.origin_city_region \in Shipping_REGION_MAPPING_keys
    /\ q.destination_city_region \in Shipping_REGION_MAPPING_keys
    /\ q.container_type \in CONTAINER_TYPE_MAPPING_keys

WithShot(quotes, idx) == { i \in idx : Truthy(quotes[i].screenshot_url) }
ShotItems(evidence) == { j \in 1..Len(evidence) : Truthy(evidence[j].screenshot_url) }

----------------------------------------------------------------------------
(* Claims about the processors, checked under SpecProc *)

\* C4: every flight quote whose two regions and passenger type all map lies in
\* the bucket keyed by its mapped triple; each bucket's sampleCount is the
\* number of quotes mapping to its key, with or without screenshot and whatever
\* the length of the evidence; the sampleCounts add up to the mapped quotes.
C4_FlightGrouping ==
    flightResult # NULL =>
        LET mapped == { i \in 1..Len(flightData) : FlightMaps(flightData[i]) }
            counts == [ b \in BucketsOf(flightResult) |->
                          Bucket(flightResult, b).sampleCount ]
        IN  /\ \A i \in mapped : FlightTriple(flightData[i]) \in BucketsOf(flightResult)
            /\ \A b \in BucketsOf(flightResult) :
                  counts[b] = Cardinality(FlightQuotesOf(b))
            /\ SumOver(BucketsOf(flightResult), counts) = Cardinality(mapped)

\* C4's case: a bucket that counts more quotes than it shows as evidence,
\* some of them without a screenshot
C4_Witness ==
    /\ flightResult # NULL
    /\ \E b \in BucketsOf(flightResult) :
          /\ Bucket(flightResult, b).sampleCount > Len(Bucket(flightResult, b).evidence)
          /\ WithShot(flightData, FlightQuotesOf(b)) # FlightQuotesOf(b)

\* C5: a flight quote with a region or passenger label that the lookup tables
\* do not list contributes to no bucket: the statistics are those of the
\* document without such quotes, and no evidence item comes from one.
C5_FlightUnlistedDropped ==
    flightResult # NULL =>
        LET listed == SelectSeq(flightData, FlightInTables)
        IN  /\ StatsOf(flightResult) \in
                  { StatsOf(m) : m \in processFlightDataToMatrix(listed) }
            /\ \A b \in BucketsOf(flightResult) :
                  \A j \in 1..Len(Bucket(flightResult, b).evidence) :
                      FlightInTables(flightData[Bucket(flightResult, b).evidence[j].id])

\* C6: a shipping quote with an unrecognized region or container label is in no
\* bucket and changes no sampleCount: every origin and destination key of the
\* matrix is a canonical region and every category key is 20ft or 40ft.
C6_ShippingUnrecognizedDropped ==
    shippingResult # NULL =>
        /\ \A b \in BucketsOf(shippingResult) :
              /\ b[1] \in REGIONS /\ b[2] \in REGIONS /\ b[3] \in CONTAINER_TYPES
              /\ \A j \in 1..Len(Bucket(shippingResult, b).evidence) :
                    ShippingInTables(rawData[Bucket(shippingResult, b).evidence[j].id])
        /\ StatsOf(shippingResult) =
               StatsOf(processShippingData(SelectSeq(rawData, ShippingInTables)))

\* C7 as stated: in every flight bucket minPrice <= averagePriceUSD <= maxPrice.
C7_FlightMinAvgMax ==
    flightResult # NULL =>
        \A b \in BucketsOf(flightResult) :
            /\ Bucket(flightResult, b).minPrice <= Bucket(flightResult, b).averagePriceUSD
            /\ Bucket(flightResult, b).averagePriceUSD <= Bucket(flightResult, b).maxPrice

\* C7 amended: in every flight bucket averagePriceUSD is the whole number
\* nearest to the mean of the normalized prices (a mean of exactly k + 0.5
\* gives k + 1, or k where the double sum falls short), minPrice and maxPrice
\* are the least and the greatest normalized price (two decimals), and
\* round(minPrice) <= averagePriceUSD <= round(maxPrice).
C7_FlightRoundedBounds ==
    flightResult # NULL =>
        \A b \in BucketsOf(flightResult) :
            LET data == Bucket(flightResult, b)
                idx == FlightQuotesOf(b)
                usd == [ i \in idx |->
                           Flight_convertToUSD(flightData[i].price, flightData[i].currency) ]
            IN  /\ idx # {}
                /\ \/ data.averagePriceUSD =
                          100 * RoundDiv(SumOver(idx, usd), 100 * Cardinality(idx))
                   \/ /\ (2 * SumOver(idx, usd)) % (200 * Cardinality(idx))
                            = 100 * Cardinality(idx)
                      /\ data.averagePriceUSD =
                            100 * RoundDiv(SumOver(idx, usd), 100 * Cardinality(idx)) - 100
                /\ \E i \in idx : data.minPrice = usd[i]
                /\ \E i \in idx : data.maxPrice = usd[i]
                /\ \A i \in idx : data.minPrice <= usd[i] /\ usd[i] <= data.maxPrice
                /\ 100 * RoundDiv(data.minPrice, 100) <= data.averagePriceUSD
                /\ data.averagePriceUSD <= 100 * RoundDiv(data.maxPrice, 100)

\* C7's case: a bucket whose whole-number average lies below its minimum
C7_Witness ==
    /\ flightResult # NULL
    /\ \E b \in BucketsOf(flightResult) :
          Bucket(flightResult, b).averagePriceUSD < Bucket(flightResult, b).minPrice

\* C8: in every shipping bucket averagePriceUSD = round(sum(normalizedPrices) /
\* sampleCount) and minPrice <= averagePriceUSD <= maxPrice, the normalized
\* prices being the quotes' prices in USD rounded to whole units.
C8_ShippingStats ==
    shippingResult # NULL =>
        \A b \in BucketsOf(shippingResult) :
            LET data == Bucket(shippingResult, b)
                idx == ShippingQuotesOf(b)
                usd == [ i \in idx |->
                           Shipping_convertToUSD(rawData[i].price_of_shipping,
                                                 rawData[i].currency) ]
            IN  /\ idx # {}
                /\ data.sampleCount = Cardinality(idx)
                /\ \A i \in idx : usd[i] % 100 = 0
                /\ data.averagePriceUSD = 100 * RoundDiv(SumOver(idx, usd), 100 * Cardinality(idx))
                /\ data.minPrice <= data.averagePriceUSD
                /\ data.averagePriceUSD <= data.maxPrice

\* C8's case: a bucket of two quotes whose prices round to different whole
\* amounts with a mean that is itself rounded
C8_Witness ==
    /\ shippingResult # NULL
    /\ \E b \in BucketsOf(shippingResult) :
          LET data == Bucket(shippingResult, b)
          IN  /\ data.sampleCount = 2
              /\ data.minPrice < data.maxPrice
              /\ 2 * data.averagePriceUSD # data.minPrice + data.maxPrice
              /\ \E i \in ShippingQuotesOf(b) : rawData[i].price_of_shipping % 100 # 0

\* C9: in every bucket of either processor 0 <= evidence.length <= min(10, sampleCount).
C9_EvidenceBound ==
    /\ flightResult # NULL =>
          \A b \in BucketsOf(flightResult) :
              /\ 0 <= Len(Bucket(flightResult, b).evidence)
              /\ Len(Bucket(flightResult, b).evidence)
                    <= Min2(10, Bucket(flightResult, b).sampleCount)
    /\ shippingResult # NULL =>
          \A b \in BucketsOf(shippingResult) :
              /\ 0 <= Len(Bucket(shippingResult, b).evidence)
              /\ Len(Bucket(shippingResult, b).evidence)
                    <= Min2(10, Bucket(shippingResult, b).sampleCount)

\* C9's case: a shipping bucket of more than ten quotes, with enough quotes of
\* each kind to fill the list, shows exactly ten
C9_Witness ==
    /\ shippingResult # NULL
    /\ \E b \in BucketsOf(shippingResult) :
          /\ Bucket(shippingResult, b).sampleCount > 10
          /\ Len(Bucket(shippingResult, b).evidence) = 10

\* C10: a bucket with at least 7 screenshot-bearing quotes and at least 3
\* without shows exactly 10 evidence items, 7 with and 3 without a screenshot,
\* in the flight processor and in the shipping processor.
C10_SevenAndThree ==
    /\ flightResult # NULL =>
          \A b \in BucketsOf(flightResult) :
              LET idx == FlightQuotesOf(b)
                  shots == WithShot(flightData, idx)
                  evidence == Bucket(flightResult, b).evidence
              IN  (Cardinality(shots) >= 7 /\ Cardinality(idx \ shots) >= 3) =>
                      /\ Len(evidence) = 10
                      /\ Cardinality(ShotItems(evidence)) = 7
    /\ shippingResult # NULL =>
          \A b \in BucketsOf(shippingResult) :
              LET idx == ShippingQuotesOf(b)
                  shots == WithShot(rawData, idx)
                  evidence == Bucket(shippingResult, b).evidence
              IN  (Cardinality(shots) >= 7 /\ Cardinality(idx \ shots) >= 3) =>
                      /\ Len(evidence) = 10
                      /\ Cardinality(ShotItems(evidence)) = 7

\* C11: a bucket with s < 7 screenshot-bearing quotes and n without shows all
\* s of the former and min(n, 10 - s) of the latter, min(10, sampleCount)
\* items in all, in the flight processor and in the shipping processor.
C11_FillToTen ==
    /\ flightResult # NULL =>
          \A b \in BucketsOf(flightResult) :
              LET idx == FlightQuotesOf(b)
                  shots == WithShot(flightData, idx)
                  evidence == Bucket(flightResult, b).evidence
              IN  Cardinality(shots) < 7 =>
                      /\ { evidence[j].id : j \in ShotItems(evidence) } = shots
                      /\ Len(evidence) - Cardinality(ShotItems(evidence))
                            = Min2(Cardinality(idx \ shots), 10 - Cardinality(shots))
                      /\ Len(evidence) = Min2(10, Bucket(flightResult, b).sampleCount)
    /\ shippingResult # NULL =>
          \A b \in BucketsOf(shippingResult) :
              LET idx == ShippingQuotesOf(b)
                  shots == WithShot(rawData, idx)
                  evidence == Bucket(shippingResult, b).evidence
              IN  Cardinality(shots) < 7 =>
                      /\ { evidence[j].id : j \in ShotItems(evidence) } = shots
                      /\ Len(evidence) - Cardinality(ShotItems(evidence))
                            = Min2(Cardinality(idx \ shots), 10 - Cardinality(shots))
                      /\ Len(evidence) = Min2(10, Bucket(shippingResult, b).sampleCount)

\* the canonical region a raw label stands for
CanonicalRegion(label) ==
    CASE label = "NORTH_AMERICA" -> "north-america"
      [] label = "LATAM" -> "latam"
      [] label = "EMEA" -> "emea"
      [] label = "INDIA" -> "india"
      [] label \in FoldingLabels -> "apac"

RegionLabels == {"NORTH_AMERICA", "LATAM", "EMEA", "INDIA"} \cup FoldingLabels

\* C15: the labels ASIA, ANZ and APAC of an endpoint all fold into apac: the
\* quotes that have the same canonical regions and category are counted in one
\* bucket, so three quotes differing only in these labels give sampleCount 3.
C15_ApacFolding ==
    /\ flightResult # NULL =>
          LET known == { i \in 1..Len(flightData) :
                           /\ flightData[i].origin_city_region \in RegionLabels
                           /\ flightData[i].destination_city_region \in RegionLabels
                           /\ flightData[i].passenger_type \in PASSENGER_TYPE_MAPPING_keys }
              triple(i) == << CanonicalRegion(flightData[i].origin_city_region),
                              CanonicalRegion(flightData[i].destination_city_region),
                              PASSENGER_TYPE_MAPPING(flightData[i].passenger_type) >>
          IN  \A i \in known :
                  /\ triple(i) \in BucketsOf(flightResult)
                  /\ Bucket(flightResult, triple(i)).sampleCount =
                         Cardinality({ j \in known : triple(j) = triple(i) })
    /\ shippingResult # NULL =>
          LET known == { i \in 1..Len(rawData) :
                           /\ rawData[i].origin_city_region \in RegionLabels
                           /\ rawData[i].destination_city_region \in RegionLabels
                           /\ rawData[i].container_type \in CONTAINER_TYPE_MAPPING_keys }
              triple(i) == << CanonicalRegion(rawData[i].origin_city_region),
                              CanonicalRegion(rawData[i].destination_city_region),
                              CONTAINER_TYPE_MAPPING(rawData[i].container_type) >>
          IN  \A i \in known :
                  /\ triple(i) \in BucketsOf(shippingResult)
                  /\ Bucket(shippingResult, triple(i)).sampleCount =
                         Cardinality({ j \in known : triple(j) = triple(i) })

\* C16: the mappers leave a canonical label as it is: a quote whose labels are
\* canonical already is counted in the bucket of these labels, and mapping the
\* result of mapping a raw label gives that result again.
C16_MapperIdempotent ==
    /\ flightResult # NULL =>
          \A i \in 1..Len(flightData) :
              LET q == flightData[i]
              IN  /\ ( /\ q.origin_city_region \in REGIONS
                       /\ q.destination_city_region \in REGIONS
                       /\ q.passenger_type \in FAMILY_SIZES )
                     => ( /\ FlightTriple(q) = << q.origin_city_region,
                                                  q.destination_city_region,
                                                  q.passenger_type >>
                          /\ FlightTriple(q) \in BucketsOf(flightResult)
                          /\ i \in FlightQuotesOf(FlightTriple(q)) )
                  /\ FlightInTables(q)
                     => ( /\ Flight_REGION_MAPPING(FlightTriple(q)[1]) = FlightTriple(q)[1]
                          /\ Flight_REGION_MAPPING(FlightTriple(q)[2]) = FlightTriple(q)[2]
                          /\ PASSENGER_TYPE_MAPPING(FlightTriple(q)[3]) = FlightTriple(q)[3] )
    /\ shippingResult # NULL =>
          \A i \in 1..Len(rawData) :
              LET q == rawData[i]
              IN  /\ ( /\ q.origin_city_region \in REGIONS
                       /\ q.destination_city_region \in REGIONS
                       /\ q.container_type \in CONTAINER_TYPES )
                     => ( /\ ShippingTriple(q) = << q.origin_city_region,
                                                    q.destination_city_region,
                                                    q.container_type >>
                          /\ ShippingTriple(q) \in BucketsOf(shippingResult)
                          /\ i \in ShippingQuotesOf(ShippingTriple(q)) )
                  /\ ShippingInTables(q)
                     => ( /\ mapRegion(ShippingTriple(q)[1]) = ShippingTriple(q)[1]
                          /\ mapRegion(ShippingTriple(q)[2]) = ShippingTriple(q)[2]
                          /\ mapContainerType(ShippingTriple(q)[3]) = ShippingTriple(q)[3] )

\* the quotes shown as evidence of a bucket, by their position in the document
EvidenceIds(m, b) == { Bucket(m, b).evidence[j].id : j \in 1..Len(Bucket(m, b).evidence) }

\* the buckets a document gives rise to
FlightBucketsOfDoc ==
    { FlightTriple(flightData[i]) : i \in { j \in 1..Len(flightData) : FlightMaps(flightData[j]) } }
ShippingBucketsOfDoc ==
    { ShippingTriple(rawData[i]) :
        i \in { j \in 1..Len(rawData) : /\ Truthy(mapRegion(rawData[j].origin_city_region))
                                         /\ Truthy(mapRegion(rawData[j].destination_city_region)) } }

\* C17: for a document with a bucket of more than 7 screenshot-bearing quotes
\* or more than 3 quotes without a screenshot, the runs of the processor on
\* the document do not all show the same quotes as the evidence of that
\* bucket, in the flight processor and in the shipping processor.
C17_EvidenceRandomized ==
    /\ flightResult = NULL =>
          \A b \in FlightBucketsOfDoc :
              LET idx == FlightQuotesOf(b)
                  shots == WithShot(flightData, idx)
                  runs == processFlightDataToMatrix(flightData)
              IN  (Cardinality(shots) > 7 \/ Cardinality(idx \ shots) > 3) =>
                      Cardinality({ EvidenceIds(m, b) : m \in runs }) > 1
    /\ shippingResult = NULL =>
          \A b \in ShippingBucketsOfDoc :
              LET idx == ShippingQuotesOf(b)
                  shots == WithShot(rawData, idx)
                  runs == {processShippingData(rawData)}
              IN  (Cardinality(shots) > 7 \/ Cardinality(idx \ shots) > 3) =>
                      Cardinality({ EvidenceIds(m, b) : m \in runs }) > 1

\* the orders a document can be put in
OrdersOf(n) == { f \in [1..n -> 1..n] : { f[i] : i \in 1..n } = 1..n }
Permuted(quotes, f) == [i \in 1..Len(quotes) |-> quotes[f[i]]]

\* C18: in whatever order the quotes of a document are processed, both
\* processors give the same bucket keys and in every bucket the same
\* sampleCount, averagePriceUSD, minPrice and maxPrice (documents of up to
\* three quotes, all their orders).
C18_OrderIndependent ==
    /\ (flightResult # NULL /\ Len(flightData) <= 3) =>
          \A f \in OrdersOf(Len(flightData)) :
              \A m \in processFlightDataToMatrix(Permuted(flightData, f)) :
                  StatsOf(m) = StatsOf(flightResult)
    /\ (shippingResult # NULL /\ Len(rawData) <= 3) =>
          \A f \in OrdersOf(Len(rawData)) :
              StatsOf(processShippingData(Permuted(rawData, f))) = StatsOf(shippingResult)

UnknownCurrencyWarning(currency) == <<"Unknown currency: ", currency, ", defaulting to USD rate">>

\* C19: a quote in a currency the rate table lacks is converted with the
\* multiplier 1.0 and a warning is written for it; nothing is thrown: the
\* quote is counted in its bucket and the other quotes are processed, in the
\* flight processor and in the shipping processor.
C19_UnknownCurrencyWarned ==
    /\ flightResult # NULL =>
          \A b \in FlightBucketsOfDoc :
              LET idx == FlightQuotesOf(b)
                  usd == [ i \in idx |->
                             IF Flight_CURRENCY_RATES(flightData[i].currency) = NoRate
                             THEN flightData[i].price
                             ELSE Flight_convertToUSD(flightData[i].price,
                                                      flightData[i].currency) ]
              IN  /\ b \in BucketsOf(flightResult)
                  /\ Bucket(flightResult, b).sampleCount = Cardinality(idx)
                  /\ \E i \in idx : Bucket(flightResult, b).minPrice = usd[i]
                  /\ \A i \in idx :
                        /\ Bucket(flightResult, b).minPrice <= usd[i]
                        /\ usd[i] <= Bucket(flightResult, b).maxPrice
                        /\ Flight_CURRENCY_RATES(flightData[i].currency) = NoRate
                              => UnknownCurrencyWarning(flightData[i].currency) \in warnings
    /\ shippingResult # NULL =>
          \A b \in ShippingBucketsOfDoc :
              LET idx == ShippingQuotesOf(b)
                  usd == [ i \in idx |->
                             IF Shipping_CURRENCY_RATES(rawData[i].currency) = NoRate
                             THEN 100 * RoundDiv(rawData[i].price_of_shipping, 100)
                             ELSE Shipping_convertToUSD(rawData[i].price_of_shipping,
                                                        rawData[i].currency) ]
              IN  /\ b \in BucketsOf(shippingResult)
                  /\ Bucket(shippingResult, b).sampleCount = Cardinality(idx)
                  /\ \E i \in idx : Bucket(shippingResult, b).minPrice = usd[i]
                  /\ \A i \in idx :
                        /\ Bucket(shippingResult, b).minPrice <= usd[i]
                        /\ usd[i] <= Bucket(shippingResult, b).maxPrice
                        /\ Shipping_CURRENCY_RATES(rawData[i].currency) = NoRate
                              => UnknownCurrencyWarning(rawData[i].currency) \in warnings

\* C22: the legacy structure has the origin -> destination -> category paths
\* of the processed matrix and no others, each path holds the bucket's
\* averagePriceUSD and nothing else, and the conversion leaves the processed
\* matrix as it was.
C22_LegacySamePaths ==
    /\ [](legacyMatrix # NULL =>
            /\ DOMAIN legacyMatrix = DOMAIN flightResult
            /\ \A o \in DOMAIN flightResult :
                  /\ DOMAIN legacyMatrix[o] = DOMAIN flightResult[o]
                  /\ \A d \in DOMAIN flightResult[o] :
                        /\ DOMAIN legacyMatrix[o][d] = DOMAIN flightResult[o][d]
                        /\ \A c \in DOMAIN flightResult[o][d] :
                              legacyMatrix[o][d][c] = flightResult[o][d][c].averagePriceUSD)
    /\ [][legacyMatrix' # legacyMatrix => flightResult' = flightResult]_vars

\* C22's case: a matrix of a bucket whose average differs from its least and
\* greatest price has been converted
C22_Witness ==
    /\ legacyMatrix # NULL
    /\ \E b \in BucketsOf(flightResult) :
          /\ Bucket(legacyMatrix, b) # Bucket(flightResult, b).minPrice
          /\ Bucket(legacyMatrix, b) # Bucket(flightResult, b).maxPrice
          /\ Bucket(flightResult, b).sampleCount > 1

WellFormedEvidence(evidence) ==
    /\ \A j, k \in 1..Len(evidence) : j # k => evidence[j].id # evidence[k].id
    /\ Cardinality(ShotItems(evidence)) <= 7
    /\ \A j, k \in 1..Len(evidence) :
          (Truthy(evidence[j].screenshot_url) /\ ~Truthy(evidence[k].screenshot_url)) => j < k

\* C29: the evidence list of every bucket of either processor consists of
\* pairwise distinct quotes of that bucket, at most 7 of them with a
\* screenshot, and every item with a screenshot comes before every item
\* without one.
C29_EvidenceWellFormed ==
    /\ flightResult # NULL =>
          \A b \in BucketsOf(flightResult) :
              /\ WellFormedEvidence(Bucket(flightResult, b).evidence)
              /\ EvidenceIds(flightResult, b) \subseteq FlightQuotesOf(b)
              /\ \A j \in 1..Len(Bucket(flightResult, b).evidence) :
                    LET item == Bucket(flightResult, b).evidence[j]
                    IN  /\ item.price = flightData[item.id].price
                        /\ item.screenshot_url = flightData[item.id].screenshot_url
    /\ shippingResult # NULL =>
          \A b \in BucketsOf(shippingResult) :
              /\ WellFormedEvidence(Bucket(shippingResult, b).evidence)
              /\ EvidenceIds(shippingResult, b) \subseteq ShippingQuotesOf(b)
              /\ \A j \in 1..Len(Bucket(shippingResult, b).evidence) :
                    Bucket(shippingResult, b).evidence[j] =
                        rawData[Bucket(shippingResult, b).evidence[j].id]

\* C29's case: a flight bucket of more than 7 quotes with a screenshot and
\* more than 3 without shows 7 and 3 of them
C29_Witness ==
    /\ flightResult # NULL
    /\ \E b \in BucketsOf(flightResult) :
          /\ Cardinality(WithShot(flightData, FlightQuotesOf(b))) > 7
          /\ Cardinality(FlightQuotesOf(b) \ WithShot(flightData, FlightQuotesOf(b))) > 3
          /\ Len(Bucket(flightResult, b).evidence) = 10
          /\ Cardinality(ShotItems(Bucket(flightResult, b).evidence)) = 7
          /\ ~Truthy(flightData[1].screenshot_url)

----------------------------------------------------------------------------
(* Claims about the converters, checked under SpecConv *)

Abs(n) == IF n < 0 THEN 0 - n ELSE n

\* the step of a converter's rounding, in cents
RoundingUnit(converter) == IF converter = "flight" THEN 1 ELSE 100

----------------------------------------------------------------------------
(* The data service: the cached matrices and their loading *)

\* the documents the server holds in a session of the cache model
CacheFlightDocs ==
    { <<>>,
      WithIds(<< [ origin_city_region |-> "EMEA", destination_city_region |-> "NORTH_AMERICA",
                   passenger_type |-> "Single", price |-> 20000, currency |-> "USD",
                   screenshot_url |-> "shot.png" ],
                 [ origin_city_region |-> "ASIA", destination_city_region |-> "NORTH_AMERICA",
                   passenger_type |-> "Couple", price |-> 40000, currency |-> "EUR",
                   screenshot_url |-> NoScreenshot ] >>),
      WithIds(<< [ origin_city_region |-> "EMEA", destination_city_region |-> "NORTH_AMERICA",
                   passenger_type |-> "Single", price |-> 0, currency |-> "USD",
                   screenshot_url |-> "shot.png" ] >>) }

CacheShippingDocs ==
    { <<>>,
      WithIds(<< [ origin_city_region |-> "EMEA", destination_city_region |-> "NORTH_AMERICA",
                   container_type |-> "ST20", price_of_shipping |-> 20000, currency |-> "USD",
                   screenshot_url |-> "shot.png" ],
                 [ origin_city_region |-> "ASIA", destination_city_region |-> "NORTH_AMERICA",
                   container_type |-> "ST40", price_of_shipping |-> 40000, currency |-> "EUR",
                   screenshot_url |-> NoScreenshot ] >>) }

\* FAMILY_SIZES[...].multiplier, in tenths
multiplier(familySize) ==
    CASE familySize = "single" -> 10
      [] familySize = "couple" -> 18
      [] familySize = "couple-plus-1" -> 24
      [] familySize = "couple-plus-2" -> 29

\* ACCOMMODATION_BASE_COSTS[originRegion][destRegion], in whole units
ACCOMMODATION_BASE_COSTS(originRegion, destRegion) ==
    CASE originRegion = "north-america" ->
            ( CASE destRegion = "north-america" -> 2000 [] destRegion = "emea" -> 3500
                [] destRegion = "apac" -> 2500 [] destRegion = "latam" -> 2800
                [] destRegion = "india" -> 2800 )
      [] originRegion = "emea" ->
            ( CASE destRegion = "north-america" -> 3500 [] destRegion = "emea" -> 1800
                [] destRegion = "apac" -> 3000 [] destRegion = "latam" -> 3200
                [] destRegion = "india" -> 1200 )
      [] originRegion = "apac" ->
            ( CASE destRegion = "north-america" -> 2500 [] destRegion = "emea" -> 3000
                [] destRegion = "apac" -> 1000 [] destRegion = "latam" -> 2400
                [] destRegion = "india" -> 800 )
      [] originRegion = "latam" ->
            ( CASE destRegion = "north-america" -> 2800 [] destRegion = "emea" -> 3200
                [] destRegion = "apac" -> 2400 [] destRegion = "latam" -> 1500
                [] destRegion = "india" -> 2000 )
      [] originRegion = "india" ->
            ( CASE destRegion = "north-america" -> 2800 [] destRegion = "emea" -> 1200
                [] destRegion = "apac" -> 800 [] destRegion = "latam" -> 2000
                [] destRegion = "india" -> 600 )

\* matrix?.[originRegion]?.[destRegion]?.[category] finds an object
HasBucket(matrix, originRegion, destRegion, category) ==
    /\ originRegion \in DOMAIN matrix
    /\ destRegion \in DOMAIN matrix[originRegion]
    /\ category \in DOMAIN matrix[originRegion][destRegion]

\* variant: only the origins that the cached matrix has get a row
Flights_origins_cachedOnly ==
    IF processedFlightMatrix # NULL
    THEN REGIONS \cap DOMAIN processedFlightMatrix
    ELSE REGIONS

\* REGIONS.forEach(originRegion => ...) of the flights part, in both branches
Flights_origins == REGIONS

\* variant: a triple without a bucket falls back to a static base cost
Flights_cell_staticFallback(originRegion, destRegion, familySize) ==
    IF processedFlightMatrix # NULL
       /\ HasBucket(processedFlightMatrix, originRegion, destRegion, familySize)
    THEN processedFlightMatrix[originRegion][destRegion][familySize].averagePriceUSD
    ELSE 120000

\* matrix.flights[originRegion.id][destRegion.id][familySize.id] (lines 305-348)
Flights_cell(originRegion, destRegion, familySize) ==
    IF processedFlightMatrix # NULL
       /\ HasBucket(processedFlightMatrix, originRegion, destRegion, familySize)
    THEN processedFlightMatrix[originRegion][destRegion][familySize].averagePriceUSD
    ELSE 0

\* variant: the accommodation cells are left blank once flight data is cached
Accommodation_cell_blankWhenLoaded(originRegion, destRegion, familySize) ==
    IF processedFlightMatrix # NULL
    THEN 0
    ELSE 100 * RoundDiv(ACCOMMODATION_BASE_COSTS(originRegion, destRegion)
                            * multiplier(familySize), 10)

\* matrix.accommodation[...][...][familySize.id] (lines 351-371), held in cents;
\* every pair of regions has a base cost, which is never 0
Accommodation_cell(originRegion, destRegion, familySize) ==
    100 * RoundDiv(ACCOMMODATION_BASE_COSTS(originRegion, destRegion)
                       * multiplier(familySize), 10)

\* matrix.shipping[originRegion.id][destRegion.id][containerType] (lines 374-411):
\* data?.averagePriceUSD || 0
Shipping_cell(originRegion, destRegion, containerType) ==
    IF processedShippingMatrix # NULL
       /\ HasBucket(processedShippingMatrix, originRegion, destRegion, containerType)
    THEN LET averagePriceUSD ==
                 processedShippingMatrix[originRegion][destRegion][containerType].averagePriceUSD
         IN  IF averagePriceUSD # 0 THEN averagePriceUSD ELSE 0
    ELSE 0

\* generateCostMatrix: the CostMatrix built from the cache as it is now
generateCostMatrix ==
    [ flights |->
          [ originRegion \in Flights_origins |-> [ destRegion \in REGIONS |->
              [ familySize \in FAMILY_SIZES |->
                  Flights_cell(originRegion, destRegion, familySize) ] ] ],
      accommodation |->
          [ originRegion \in REGIONS |-> [ destRegion \in REGIONS |->
              [ familySize \in FAMILY_SIZES |->
                  Accommodation_cell(originRegion, destRegion, familySize) ] ] ],
      shipping |->
          [ originRegion \in REGIONS |-> [ destRegion \in REGIONS |->
              [ containerType \in CONTAINER_TYPES |->
                  Shipping_cell(originRegion, destRegion, containerType) ] ] ] ]

\* getRouteSpecificCosts of the dashboard for the selected route: cell || 0
getRouteSpecificCosts(matrix, originRegion, destinationRegion, familySize, containerType) ==
    LET orZero(part, category) ==
            IF HasBucket(part, originRegion, destinationRegion, category)
               /\ part[originRegion][destinationRegion][category] # 0
            THEN part[originRegion][destinationRegion][category]
            ELSE 0
    IN  [ flights |-> orZero(matrix.flights, familySize),
          accommodation |-> orZero(matrix.accommodation, familySize),
          shipping |-> orZero(matrix.shipping, containerType) ]

\* the cost cards: cost > 0 ? formatCurrency(cost) : 'No Data'
RenderCost(cost) == IF cost > 0 THEN "formatCurrency" ELSE "No Data"

Init ==
    /\ flightData \in CacheFlightDocs
    /\ rawData \in CacheShippingDocs
    /\ flightResult = NULL
    /\ shippingResult = NULL
    /\ legacyMatrix = NULL
    /\ warnings = {}
    /\ NotConverting
    /\ UiIdle
    /\ CacheEmpty

\* variant: the loading flag is not looked at
Flight_loadedOnly == processedFlightMatrix # NULL

\* variant: the cached matrix is not looked at
Flight_loadingOnly == isLoadingFlightData

\* if (processedFlightMatrix || isLoadingFlightData) return;  an object is truthy, also {}
Flight_loadedOrLoading == processedFlightMatrix # NULL \/ isLoadingFlightData

Shipping_loadedOrLoading == processedShippingMatrix # NULL \/ isLoadingShippingData

\* variant: the cache is made an empty matrix when the load starts, to be filled later
initializeRealFlightData_call_emptyFirst(c) ==
    /\ flightCalls[c].pc = "idle"
    /\ \A earlier \in 1..(c - 1) : flightCalls[earlier].pc # "idle"
    /\ IF Flight_loadedOrLoading
       THEN /\ flightCalls' = [flightCalls EXCEPT ![c].pc = "resolved"]
            /\ UNCHANGED <<isLoadingFlightData, processedFlightMatrix>>
       ELSE /\ isLoadingFlightData' = TRUE
            /\ processedFlightMatrix' = <<>>
            /\ flightCalls' = [flightCalls EXCEPT ![c].pc = "fetch",
                                                  ![c].fetches = @ + 1]
    /\ UNCHANGED <<processedShippingMatrix, isLoadingShippingData, shippingCalls>>
    /\ UNCHANGED <<procVars, costMatrix, warnings, uiVars>>

\* initializeRealFlightData up to its await: the early return, or the flag
\* set and loadAndProcessFlightData started, which runs up to its fetch
initializeRealFlightData_call(c) ==
    /\ flightCalls[c].pc = "idle"
    /\ \A earlier \in 1..(c - 1) : flightCalls[earlier].pc # "idle"
    /\ IF Flight_loadedOrLoading
       THEN /\ flightCalls' = [flightCalls EXCEPT ![c].pc = "resolved"]
            /\ UNCHANGED isLoadingFlightData
       ELSE /\ isLoadingFlightData' = TRUE
            /\ flightCalls' = [flightCalls EXCEPT ![c].pc = "fetch",
                                                  ![c].fetches = @ + 1]
    /\ UNCHANGED <<processedFlightMatrix, processedShippingMatrix,
                   isLoadingShippingData, shippingCalls>>
    /\ UNCHANGED <<procVars, costMatrix, warnings, uiVars>>

\* fetch('/centralized_flight_data.json') settles: a response (whatever its
\* status: response.ok is not looked at) leads on to response.json(); a
\* network failure is caught, logged and thrown again by the loader
Flight_fetchSettles(c) ==
    /\ flightCalls[c].pc = "fetch"
    /\ \E fulfilled \in BOOLEAN :
          flightCalls' = [flightCalls EXCEPT
                             ![c].pc = IF fulfilled THEN "json" ELSE "failed",
                             ![c].load = IF fulfilled THEN @ ELSE "rejected"]
    /\ UNCHANGED <<processedFlightMatrix, processedShippingMatrix,
                   isLoadingFlightData, isLoadingShippingData, shippingCalls>>
    /\ UNCHANGED <<procVars, costMatrix, warnings, uiVars>>

\* response.json() settles: with the document, which is processed at once
\* and returned by the loader, or with a failure (an error body, text that
\* is not JSON, a document without flight_quotes on which the processor
\* throws), which the loader catches, logs and throws again
Flight_jsonSettles(c) ==
    /\ flightCalls[c].pc = "json"
    /\ \/ /\ \E processedMatrix \in processFlightDataToMatrix(flightData) :
                flightCalls' = [flightCalls EXCEPT ![c].pc = "loaded",
                                                   ![c].load = "fulfilled",
                                                   ![c].result = processedMatrix]
          /\ warnings' = warnings \cup Flight_warnings(flightData)
       \/ /\ flightCalls' = [flightCalls EXCEPT ![c].pc = "failed",
                                                ![c].load = "rejected"]
          /\ UNCHANGED warnings
    /\ UNCHANGED <<processedFlightMatrix, processedShippingMatrix,
                   isLoadingFlightData, isLoadingShippingData, shippingCalls>>
    /\ UNCHANGED <<procVars, costMatrix, uiVars>>

\* variant: the flag is cleared at the end of the try block, not in a finally
initializeRealFlightData_resume_noFinally(c) ==
    /\ flightCalls[c].pc \in {"loaded", "failed"}
    /\ processedFlightMatrix' =
          IF flightCalls[c].pc = "loaded" THEN flightCalls[c].result ELSE NULL
    /\ isLoadingFlightData' = (flightCalls[c].pc # "loaded")
    /\ flightCalls' = [flightCalls EXCEPT ![c].pc = "resolved"]
    /\ UNCHANGED <<processedShippingMatrix, isLoadingShippingData, shippingCalls>>
    /\ UNCHANGED <<procVars, costMatrix, warnings, uiVars>>

\* initializeRealFlightData resumes after its await: try, catch and finally
initializeRealFlightData_resume(c) ==
    /\ flightCalls[c].pc \in {"loaded", "failed"}
    /\ processedFlightMatrix' =
          IF flightCalls[c].pc = "loaded" THEN flightCalls[c].result ELSE NULL
    /\ isLoadingFlightData' = FALSE
    /\ flightCalls' = [flightCalls EXCEPT ![c].pc = "resolved"]
    /\ UNCHANGED <<processedShippingMatrix, isLoadingShippingData, shippingCalls>>
    /\ UNCHANGED <<procVars, costMatrix, warnings, uiVars>>

\* a call of generateCostMatrix, between any two steps of the loads
generateCostMatrix_call ==
    /\ costMatrix' = generateCostMatrix
    /\ UNCHANGED <<processedFlightMatrix, processedShippingMatrix,
                   isLoadingFlightData, isLoadingShippingData,
                   flightCalls, shippingCalls>>
    /\ UNCHANGED <<procVars, warnings, uiVars>>

\* initializeRealShippingData up to its await
initializeRealShippingData_call(c) ==
    /\ shippingCalls[c].pc = "idle"
    /\ \A earlier \in 1..(c - 1) : shippingCalls[earlier].pc # "idle"
    /\ IF Shipping_loadedOrLoading
       THEN /\ shippingCalls' = [shippingCalls EXCEPT ![c].pc = "resolved"]
            /\ UNCHANGED isLoadingShippingData
       ELSE /\ isLoadingShippingData' = TRUE
            /\ shippingCalls' = [shippingCalls EXCEPT ![c].pc = "fetch",
                                                      ![c].fetches = @ + 1]
    /\ UNCHANGED <<processedFlightMatrix, processedShippingMatrix,
                   isLoadingFlightData, flightCalls>>
    /\ UNCHANGED <<procVars, costMatrix, warnings, uiVars>>

\* fetch('/shipping_data.json') settles: a response that is ok leads on to
\* response.json(); a response that is not ok makes the loader throw, a
\* network failure rejects, and the loader catches, logs and throws again
Shipping_fetchSettles(c) ==
    /\ shippingCalls[c].pc = "fetch"
    /\ \E outcome \in {"ok", "not ok", "network error"} :
          shippingCalls' = [shippingCalls EXCEPT
                               ![c].pc = IF outcome = "ok" THEN "json" ELSE "failed",
                               ![c].load = IF outcome = "ok" THEN @ ELSE "rejected"]
    /\ UNCHANGED <<processedFlightMatrix, processedShippingMatrix,
                   isLoadingFlightData, isLoadingShippingData, flightCalls>>
    /\ UNCHANGED <<procVars, costMatrix, warnings, uiVars>>

\* response.json() settles: with rawData, which is processed at once and
\* returned, or with a failure, caught, logged and thrown again
Shipping_jsonSettles(c) ==
    /\ shippingCalls[c].pc = "json"
    /\ \/ /\ shippingCalls' = [shippingCalls EXCEPT
                                  ![c].pc = "loaded",
                                  ![c].load = "fulfilled",
                                  ![c].result = processShippingData(rawData)]
          /\ warnings' = warnings \cup Shipping_warnings(rawData)
       \/ /\ shippingCalls' = [shippingCalls EXCEPT ![c].pc = "failed",
                                                    ![c].load = "rejected"]
          /\ UNCHANGED warnings
    /\ UNCHANGED <<processedFlightMatrix, processedShippingMatrix,
                   isLoadingFlightData, isLoadingShippingData, flightCalls>>
    /\ UNCHANGED <<procVars, costMatrix, uiVars>>

\* variant: the finally block clears the flag of the flight load as well
initializeRealShippingData_resume_bothFlags(c) ==
    /\ shippingCalls[c].pc \in {"loaded", "failed"}
    /\ processedShippingMatrix' =
          IF shippingCalls[c].pc = "loaded" THEN shippingCalls[c].result ELSE NULL
    /\ isLoadingShippingData' = FALSE
    /\ isLoadingFlightData' = FALSE
    /\ shippingCalls' = [shippingCalls EXCEPT ![c].pc = "resolved"]
    /\ UNCHANGED <<processedFlightMatrix, flightCalls>>
    /\ UNCHANGED <<procVars, costMatrix, warnings, uiVars>>

\* initializeRealShippingData resumes after its await: try, catch and finally
initializeRealShippingData_resume(c) ==
    /\ shippingCalls[c].pc \in {"loaded", "failed"}
    /\ processedShippingMatrix' =
          IF shippingCalls[c].pc = "loaded" THEN shippingCalls[c].result ELSE NULL
    /\ isLoadingShippingData' = FALSE
    /\ shippingCalls' = [shippingCalls EXCEPT ![c].pc = "resolved"]
    /\ UNCHANGED <<processedFlightMatrix, isLoadingFlightData, flightCalls>>
    /\ UNCHANGED <<procVars, costMatrix, warnings, uiVars>>

Next ==
    \/ generateCostMatrix_call
    \/ \E c \in Calls :
        \/ initializeRealFlightData_call(c)
        \/ Flight_fetchSettles(c)
        \/ Flight_jsonSettles(c)
        \/ initializeRealFlightData_resume(c)
        \/ initializeRealShippingData_call(c)
        \/ Shipping_fetchSettles(c)
        \/ Shipping_jsonSettles(c)
        \/ initializeRealShippingData_resume(c)

Spec == Init /\ [][Next]_vars

\* the continuation of an await runs once the awaited promise has settled:
\* the job queue of the JavaScript engine is emptied after every task
SpecFair ==
    /\ Spec
    /\ \A c \in Calls : /\ WF_vars(initializeRealFlightData_resume(c))
                         /\ WF_vars(initializeRealShippingData_resume(c))

----------------------------------------------------------------------------
(* The readers of the cache *)

\* processedMatrix[originRegion]?.[destRegion]?.[passengerType]?.evidence || []
getEvidenceForRoute(processedMatrix, originRegion, destRegion, passengerType) ==
    IF HasBucket(processedMatrix, originRegion, destRegion, passengerType)
    THEN processedMatrix[originRegion][destRegion][passengerType].evidence
    ELSE <<>>

getShippingEvidenceForRoute(matrix, originRegion, destRegion, containerType) ==
    IF HasBucket(matrix, originRegion, destRegion, containerType)
    THEN matrix[originRegion][destRegion][containerType].evidence
    ELSE <<>>

\* the statistics object both get...Statistics functions build from a bucket
StatisticsOf(data) ==
    [ averagePrice |-> data.averagePriceUSD,
      minPrice |-> data.minPrice,
      maxPrice |-> data.maxPrice,
      sampleCount |-> data.sampleCount,
      evidenceCount |-> Len(data.evidence) ]

getFlightEvidence(originRegion, destRegion, passengerType) ==
    IF processedFlightMatrix = NULL
    THEN <<>>
    ELSE getEvidenceForRoute(processedFlightMatrix, originRegion, destRegion, passengerType)

hasRealFlightData == processedFlightMatrix # NULL

getFlightStatistics(originRegion, destRegion, passengerType) ==
    IF processedFlightMatrix = NULL
    THEN NULL
    ELSE IF ~HasBucket(processedFlightMatrix, originRegion, destRegion, passengerType)
    THEN NULL
    ELSE StatisticsOf(processedFlightMatrix[originRegion][destRegion][passengerType])

getShippingEvidence(originRegion, destRegion, containerType) ==
    IF processedShippingMatrix = NULL
    THEN <<>>
    ELSE getShippingEvidenceForRoute(processedShippingMatrix,
                                     originRegion, destRegion, containerType)

hasRealShippingData == processedShippingMatrix # NULL

getShippingStatistics(originRegion, destRegion, containerType) ==
    IF processedShippingMatrix = NULL
    THEN NULL
    ELSE IF ~HasBucket(processedShippingMatrix, originRegion, destRegion, containerType)
    THEN NULL
    ELSE StatisticsOf(processedShippingMatrix[originRegion][destRegion][containerType])

\* the routes a reader is asked about: one that the documents have quotes
\* for and one that they have not
FlightRoutes == { <<"emea", "north-america", "single">>, <<"latam", "emea", "single">> }
ShippingRoutes == { <<"emea", "north-america", "20ft">>, <<"latam", "emea", "20ft">> }

\* a session whose documents both have quotes
InitRead ==
    /\ Init
    /\ Len(flightData) = 2
    /\ Len(rawData) = 2

\* a reader returns; the cache, the flags and the calls are only read
Returns(function, value) ==
    /\ returned' = [function |-> function, value |-> value]
    /\ UNCHANGED <<cacheVars, procVars, warnings, dashboard, table>>

getFlightEvidence_call ==
    \E r \in FlightRoutes : Returns("getFlightEvidence", getFlightEvidence(r[1], r[2], r[3]))

hasRealFlightData_call == Returns("hasRealFlightData", hasRealFlightData)

getFlightStatistics_call ==
    \E r \in FlightRoutes : Returns("getFlightStatistics", getFlightStatistics(r[1], r[2], r[3]))

getShippingEvidence_call ==
    \E r \in ShippingRoutes :
        Returns("getShippingEvidence", getShippingEvidence(r[1], r[2], r[3]))

hasRealShippingData_call == Returns("hasRealShippingData", hasRealShippingData)

getShippingStatistics_call ==
    \E r \in ShippingRoutes :
        Returns("getShippingStatistics", getShippingStatistics(r[1], r[2], r[3]))

NextRead ==
    \/ Next
    \/ getFlightEvidence_call
    \/ hasRealFlightData_call
    \/ getFlightStatistics_call
    \/ getShippingEvidence_call
    \/ hasRealShippingData_call
    \/ getShippingStatistics_call

SpecRead == InitRead /\ [][NextRead]_vars


----------------------------------------------------------------------------
(* The dashboard component *)

InFlight(calls) == { c \in Calls : calls[c].pc \in {"fetch", "json"} }
Settled(call) == call.pc \in {"resolved", "rejected"}

COST_TYPES == {"flights", "accommodation", "shipping"}

Positive(cost) == cost > 0

\* the costs array generateCostSummaries collects for one cost type and one
\* pair of regions: the cells greater than 0, in the order of the categories
SummaryCosts(matrix, costType, origin, destination) ==
    IF costType = "shipping"
    THEN SelectSeq(<< matrix.shipping[origin][destination]["20ft"],
                      matrix.shipping[origin][destination]["40ft"] >>, Positive)
    ELSE SelectSeq(<< matrix[costType][origin][destination]["single"],
                      matrix[costType][origin][destination]["couple"],
                      matrix[costType][origin][destination]["couple-plus-1"],
                      matrix[costType][origin][destination]["couple-plus-2"] >>, Positive)

\* one CostSummary without lastUpdated (the time of the call); avgCost is
\* Math.round of the mean, an outlier a cost above 1.5 times the mean
CostSummary(costs) ==
    [ totalRoutes |-> Len(costs),
      avgCost |-> 100 * RoundDiv(SumSeq(costs), 100 * Len(costs)),
      minCost |-> MinSeq(costs),
      maxCost |-> MaxSeq(costs),
      outliers |-> Cardinality({ i \in 1..Len(costs) :
                                   2 * Len(costs) * costs[i] > 3 * SumSeq(costs) }) ]

\* generateCostSummaries: a summary for every cost type and pair of regions
\* that has a cost above 0 in generateCostMatrix(); the array is in the order
\* of COST_TYPES, REGIONS, REGIONS, so it is given by its entries
generateCostSummaries ==
    LET matrix == generateCostMatrix
    IN  [ k \in { t \in COST_TYPES \X REGIONS \X REGIONS :
                     SummaryCosts(matrix, t[1], t[2], t[3]) # <<>> } |->
            CostSummary(SummaryCosts(matrix, k[1], k[2], k[3])) ]

\* a render of MobilityDashboard: each useMemo keeps its value unless one of
\* its dependencies differs from the last render's (lines 37-38)
Rendered(d) ==
    [ d EXCEPT
        !.costMatrix = IF d.costMatrixDeps = <<d.flightDataLoaded, d.shippingDataLoaded>>
                       THEN @ ELSE generateCostMatrix,
        !.costMatrixDeps = <<d.flightDataLoaded, d.shippingDataLoaded>>,
        !.costSummaries = IF d.costSummariesDeps = <<d.flightDataLoaded>>
                          THEN @ ELSE generateCostSummaries,
        !.costSummariesDeps = <<d.flightDataLoaded>> ]

\* the component is mounted: its first render
Dashboard_mount ==
    /\ dashboard.pc = "unmounted"
    /\ dashboard' = Rendered([dashboard EXCEPT !.pc = "mounted"])
    /\ UNCHANGED <<cacheVars, procVars, warnings, returned, table>>

\* a later render, after a state change of the component or of a parent
Dashboard_render ==
    /\ dashboard.pc = "mounted"
    /\ dashboard' = Rendered(dashboard)
    /\ UNCHANGED <<cacheVars, procVars, warnings, returned, table>>

\* the mount effect has called initFlightData() and initShippingData(), each
\* of which runs up to its await (lines 41-67): the effect is one task
EffectRun == flightCalls[1].pc # "idle" /\ shippingCalls[1].pc # "idle"

\* initFlightData after its await (lines 45-51): the try block when the call
\* resolved, the catch block when it rejected, then finally
Dashboard_initFlightData_resume ==
    /\ dashboard.pc = "mounted"
    /\ dashboard.initFlightData = "idle"
    /\ Settled(flightCalls[1])
    /\ dashboard' = [dashboard EXCEPT
                         !.flightDataLoaded = IF flightCalls[1].pc = "resolved" THEN TRUE ELSE @,
                         !.isLoadingFlightData = FALSE,
                         !.initFlightData = "done"]
    /\ UNCHANGED <<cacheVars, procVars, warnings, returned, table>>

\* initShippingData after its await (lines 57-63)
Dashboard_initShippingData_resume ==
    /\ dashboard.pc = "mounted"
    /\ dashboard.initShippingData = "idle"
    /\ Settled(shippingCalls[1])
    /\ dashboard' = [dashboard EXCEPT
                         !.shippingDataLoaded =
                             IF shippingCalls[1].pc = "resolved" THEN TRUE ELSE @,
                         !.isLoadingShippingData = FALSE,
                         !.initShippingData = "done"]
    /\ UNCHANGED <<cacheVars, procVars, warnings, returned, table>>

\* a page whose only caller of the data service is the dashboard
NextDash ==
    \/ Dashboard_mount
    \/ dashboard.pc = "mounted" /\ flightCalls[1].pc = "idle"
          /\ initializeRealFlightData_call(1)
    \/ dashboard.pc = "mounted" /\ flightCalls[1].pc # "idle"
          /\ initializeRealShippingData_call(1)
    \/ EffectRun /\ Flight_fetchSettles(1)
    \/ EffectRun /\ Flight_jsonSettles(1)
    \/ EffectRun /\ initializeRealFlightData_resume(1)
    \/ EffectRun /\ Shipping_fetchSettles(1)
    \/ EffectRun /\ Shipping_jsonSettles(1)
    \/ EffectRun /\ initializeRealShippingData_resume(1)
    \/ EffectRun /\ Dashboard_initFlightData_resume
    \/ EffectRun /\ Dashboard_initShippingData_resume
    \/ EffectRun /\ Dashboard_render

SpecDash == Init /\ [][NextDash]_vars

----------------------------------------------------------------------------
(* The routes table of ShippingMatrixDashboard *)

itemsPerPage == 10

\* SHIPPING_ROUTES is data of the deployment: n routes, the first k of them
\* from Shanghai and the others from Rotterdam, carried in turn by the two
\* providers.  The other fields that the search looks at are the same for
\* all routes and contain none of the search terms below.
ShippingRoutesOf(n, k) ==
    [ i \in 1..n |->
        [ shipment_id |-> i,
          city_of_origin |-> IF i <= k THEN "Shanghai" ELSE "Rotterdam",
          provider |-> IF i % 2 = 1 THEN "Freightos" ELSE "iContainers" ] ]

RouteTables ==
    { ShippingRoutesOf(n, k) : n \in {0, 1, MaxRoutes \div 2, MaxRoutes}, k \in {0, 3} }

\* what the user types into the search box
SearchTerms == {"", "shanghai", "Rotter", "freightos", "zzz"}

\* field.toLowerCase().includes(searchTerm.toLowerCase()) on the fields and
\* terms of the model
LowerIncludes(field, searchTerm) ==
    \/ searchTerm = ""
    \/ field = "Shanghai" /\ searchTerm = "shanghai"
    \/ field = "Rotterdam" /\ searchTerm = "Rotter"
    \/ field = "Freightos" /\ searchTerm = "freightos"

NoColumnFilters == [ originCity |-> "", provider |-> "" ]

OriginCities == {"Shanghai", "Rotterdam"}
Providers == {"Freightos", "iContainers"}

\* filteredData (lines 94-141); the column filters that stay '' filter nothing
filteredData(t) ==
    LET searched ==
            IF t.searchTerm # ""
            THEN SelectSeq(t.routes, LAMBDA route :
                     \/ LowerIncludes(route.city_of_origin, t.searchTerm)
                     \/ LowerIncludes(route.provider, t.searchTerm))
            ELSE t.routes
        byCity ==
            IF t.columnFilters.originCity # ""
            THEN SelectSeq(searched, LAMBDA route :
                     route.city_of_origin = t.columnFilters.originCity)
            ELSE searched
    IN  IF t.columnFilters.provider # ""
        THEN SelectSeq(byCity, LAMBDA route : route.provider = t.columnFilters.provider)
        ELSE byCity

\* Math.ceil(filteredData.length / itemsPerPage)
totalPages(t) == (Len(filteredData(t)) + itemsPerPage - 1) \div itemsPerPage

\* filteredData.slice(startIndex, startIndex + itemsPerPage)
paginatedData(t) ==
    LET startIndex == (t.currentPage - 1) * itemsPerPage
    IN  SubSeq(filteredData(t), startIndex + 1,
               Min2(startIndex + itemsPerPage, Len(filteredData(t))))

\* the page numbers getPaginationRange puts on buttons (lines 170-193)
getPaginationRange(t) ==
    LET delta == 2
    IN  {1}
        \cup { i \in 1..totalPages(t) :
                 /\ i >= Max2(2, t.currentPage - delta)
                 /\ i <= Min2(totalPages(t) - 1, t.currentPage + delta) }
        \cup ( IF t.currentPage + delta < totalPages(t) - 1 \/ totalPages(t) > 1
               THEN {totalPages(t)} ELSE {} )

\* the component as mounted on some SHIPPING_ROUTES (lines 68-81)
InitTable ==
    /\ table \in { [ routes |-> routes, searchTerm |-> "", currentPage |-> 1,
                     columnFilters |-> NoColumnFilters ] : routes \in RouteTables }
    /\ returned = NULL
    /\ dashboard = NotMounted
    /\ flightData = <<>>
    /\ rawData = <<>>
    /\ flightResult = NULL
    /\ shippingResult = NULL
    /\ legacyMatrix = NULL
    /\ warnings = {}
    /\ NotConverting
    /\ CacheEmpty

TableOnly == UNCHANGED <<cacheVars, procVars, warnings, returned, dashboard>>

\* the search input: onChange={(e) => setSearchTerm(e.target.value)}, and the
\* X button beside it, setSearchTerm('') (lines 258-272)
setSearchTerm(value) ==
    /\ table.searchTerm # value
    /\ table' = [table EXCEPT !.searchTerm = value]
    /\ TableOnly

\* updateColumnFilter (lines 165-168)
updateColumnFilter(key, value) ==
    /\ table' = [table EXCEPT !.columnFilters[key] = value, !.currentPage = 1]
    /\ TableOnly

\* clearAllFilters (lines 150-163); its button is there while a search term
\* or a column filter is set (lines 292-303)
clearAllFilters ==
    /\ table.searchTerm # "" \/ table.columnFilters # NoColumnFilters
    /\ table' = [table EXCEPT !.columnFilters = NoColumnFilters,
                              !.searchTerm = "", !.currentPage = 1]
    /\ TableOnly

\* the pagination controls, which are there while totalPages > 1 (line 1119),
\* First and Prev enabled off page 1, Next and Last off the last page
setCurrentPage(page) ==
    /\ totalPages(table) > 1
    /\ table' = [table EXCEPT !.currentPage = page]
    /\ TableOnly

First == table.currentPage # 1 /\ setCurrentPage(1)
Prev == table.currentPage # 1 /\ setCurrentPage(Max2(1, table.currentPage - 1))
Numbered == \E pageNum \in getPaginationRange(table) : setCurrentPage(pageNum)
NextPage ==
    /\ table.currentPage # totalPages(table)
    /\ setCurrentPage(Min2(totalPages(table), table.currentPage + 1))
Last == table.currentPage # totalPages(table) /\ setCurrentPage(totalPages(table))

NextTable ==
    \/ \E value \in SearchTerms : setSearchTerm(value)
    \/ \E value \in OriginCities \cup {""} : updateColumnFilter("originCity", value)
    \/ \E value \in Providers \cup {""} : updateColumnFilter("provider", value)
    \/ clearAllFilters
    \/ First
    \/ Prev
    \/ Numbered
    \/ NextPage
    \/ Last

SpecTable == InitTable /\ [][NextTable]_vars

----------------------------------------------------------------------------
(* Claims about the cache, checked under Spec *)

\* C1: at most one fetch of the flight document, and at most one of the
\* shipping document, is in flight at any time; a call that begins while the
\* loading flag is set or once the matrix is cached returns without a fetch.
C1_SingleFetchInFlight ==
    /\ [](Cardinality(InFlight(flightCalls)) <= 1 /\ Cardinality(InFlight(shippingCalls)) <= 1)
    /\ [][ \A c \in Calls :
             /\ ( /\ flightCalls[c].pc = "idle" /\ flightCalls'[c].pc # "idle"
                  /\ (isLoadingFlightData \/ processedFlightMatrix # NULL) )
                => (flightCalls'[c].pc = "resolved" /\ flightCalls'[c].fetches = 0)
             /\ ( /\ shippingCalls[c].pc = "idle" /\ shippingCalls'[c].pc # "idle"
                  /\ (isLoadingShippingData \/ processedShippingMatrix # NULL) )
                => (shippingCalls'[c].pc = "resolved" /\ shippingCalls'[c].fetches = 0)
         ]_vars

\* C1's case: a call has returned without a fetch while another call's fetch is in flight
C1_Witness ==
    \E c1, c2 \in Calls :
        /\ flightCalls[c1].pc \in {"fetch", "json"}
        /\ isLoadingFlightData
        /\ flightCalls[c2].pc = "resolved" /\ flightCalls[c2].fetches = 0

\* C2: the cached flight (shipping) matrix is null or a completely built
\* matrix of the document, in every state a reader can run in, and once it is
\* a matrix it is never changed.
C2_CacheNullOrComplete ==
    /\ [](/\ processedFlightMatrix = NULL
             \/ processedFlightMatrix \in processFlightDataToMatrix(flightData)
          /\ processedShippingMatrix = NULL
             \/ processedShippingMatrix = processShippingData(rawData))
    /\ [][ /\ processedFlightMatrix # NULL => processedFlightMatrix' = processedFlightMatrix
           /\ processedShippingMatrix # NULL => processedShippingMatrix' = processedShippingMatrix
         ]_vars

\* C2's case: a load has cached a matrix of more than one bucket
C2_Witness ==
    /\ processedFlightMatrix # NULL
    /\ Cardinality(BucketsOf(processedFlightMatrix)) = 2
    /\ \E c \in Calls : flightCalls[c].pc = "resolved" /\ flightCalls[c].load = "fulfilled"

\* C3: a call of initializeRealFlightData or initializeRealShippingData whose
\* load failed ends rejected, and it made no second fetch.
C3_FailedLoadRejectsCaller ==
    \A c \in Calls :
        /\ (flightCalls[c].load = "rejected" /\ Settled(flightCalls[c]))
              => (flightCalls[c].pc = "rejected" /\ flightCalls[c].fetches = 1)
        /\ (shippingCalls[c].load = "rejected" /\ Settled(shippingCalls[c]))
              => (shippingCalls[c].pc = "rejected" /\ shippingCalls[c].fetches = 1)

FlightTriples == REGIONS \X REGIONS \X FAMILY_SIZES
ShippingTriples == REGIONS \X REGIONS \X CONTAINER_TYPES

\* a CostMatrix with a cell for every triple of the enumerations
Dense(matrix) ==
    /\ DOMAIN matrix.flights = REGIONS
    /\ DOMAIN matrix.accommodation = REGIONS
    /\ DOMAIN matrix.shipping = REGIONS
    /\ \A o \in REGIONS :
          /\ DOMAIN matrix.flights[o] = REGIONS
          /\ DOMAIN matrix.accommodation[o] = REGIONS
          /\ DOMAIN matrix.shipping[o] = REGIONS
          /\ \A d \in REGIONS :
                /\ DOMAIN matrix.flights[o][d] = FAMILY_SIZES
                /\ DOMAIN matrix.accommodation[o][d] = FAMILY_SIZES
                /\ DOMAIN matrix.shipping[o][d] = CONTAINER_TYPES

FlightBucketCached(t) ==
    processedFlightMatrix # NULL /\ HasBucket(processedFlightMatrix, t[1], t[2], t[3])
ShippingBucketCached(t) ==
    processedShippingMatrix # NULL /\ HasBucket(processedShippingMatrix, t[1], t[2], t[3])

\* C12: whatever the cache holds (nothing loaded, a load in progress, loaded,
\* a load failed), the matrix generateCostMatrix returns has a cell for every
\* triple of REGIONS x REGIONS x FAMILY_SIZES under flights and accommodation
\* and of REGIONS x REGIONS x {20ft, 40ft} under shipping.
C12_DenseCoverage ==
    /\ Dense(generateCostMatrix)
    /\ costMatrix # NULL => Dense(costMatrix)

\* C12's case: a matrix generated from a loaded cache that lacks buckets
C12_Witness ==
    /\ costMatrix # NULL
    /\ costMatrix = generateCostMatrix
    /\ \E t \in FlightTriples : FlightBucketCached(t)
    /\ \E t \in FlightTriples : ~FlightBucketCached(t)
    /\ \E c \in Calls : shippingCalls[c].load = "rejected" /\ shippingCalls[c].pc = "resolved"

\* C13: a flights (shipping) cell of the matrix generateCostMatrix returns is
\* the averagePriceUSD of the cached bucket of its triple when there is one,
\* and 0 when the bucket is absent or no matrix is cached.
C13_CellIsAverageOrZero ==
    /\ [](/\ \A t \in FlightTriples :
                generateCostMatrix.flights[t[1]][t[2]][t[3]] =
                    IF FlightBucketCached(t)
                    THEN Bucket(processedFlightMatrix, t).averagePriceUSD ELSE 0
          /\ \A t \in ShippingTriples :
                generateCostMatrix.shipping[t[1]][t[2]][t[3]] =
                    IF ShippingBucketCached(t)
                    THEN Bucket(processedShippingMatrix, t).averagePriceUSD ELSE 0)
    /\ [][ costMatrix' # costMatrix =>
             /\ \A t \in FlightTriples :
                   costMatrix'.flights[t[1]][t[2]][t[3]] =
                       IF FlightBucketCached(t)
                       THEN Bucket(processedFlightMatrix, t).averagePriceUSD ELSE 0
             /\ \A t \in ShippingTriples :
                   costMatrix'.shipping[t[1]][t[2]][t[3]] =
                       IF ShippingBucketCached(t)
                       THEN Bucket(processedShippingMatrix, t).averagePriceUSD ELSE 0
         ]_vars

\* C13's case: a generated matrix with a flights cell and a shipping cell taken
\* from cached buckets, and a 0 where the cached matrix has no bucket
C13_Witness ==
    /\ costMatrix # NULL
    /\ costMatrix = generateCostMatrix
    /\ \E t \in FlightTriples :
          FlightBucketCached(t) /\ costMatrix.flights[t[1]][t[2]][t[3]] > 0
    /\ \E t \in ShippingTriples :
          ShippingBucketCached(t) /\ costMatrix.shipping[t[1]][t[2]][t[3]] > 0
    /\ \E t \in FlightTriples :
          ~FlightBucketCached(t) /\ costMatrix.flights[t[1]][t[2]][t[3]] = 0

\* C14: a triple for which the cache holds a bucket is never shown with the
\* value 0: its cell of the generated matrix is not 0 and its cost card does
\* not read "No Data".
C14_ZeroMeansNoBucket ==
    /\ \A t \in FlightTriples :
          FlightBucketCached(t) =>
              /\ generateCostMatrix.flights[t[1]][t[2]][t[3]] # 0
              /\ RenderCost(getRouteSpecificCosts(generateCostMatrix,
                                 t[1], t[2], t[3], "20ft").flights) # "No Data"
    /\ \A t \in ShippingTriples :
          ShippingBucketCached(t) =>
              /\ generateCostMatrix.shipping[t[1]][t[2]][t[3]] # 0
              /\ RenderCost(getRouteSpecificCosts(generateCostMatrix,
                                 t[1], t[2], "single", t[3]).shipping) # "No Data"

C25_ResolvedMeansLoaded ==
    [][ \A c \in Calls :
          /\ (flightCalls[c].pc # "resolved" /\ flightCalls'[c].pc = "resolved")
                => hasRealFlightData'
          /\ (shippingCalls[c].pc # "resolved" /\ shippingCalls'[c].pc = "resolved")
                => hasRealShippingData'
      ]_vars

\* C26: a load whose loader has settled, by success or by failure, leads to the
\* loading flag being false; the step that ends a failed load leaves the matrix
\* null and the flag false; and a call that begins with the matrix null and the
\* flag false starts a fetch (flights and shipping).
C26_FlagCleared ==
    /\ \A c \in Calls :
          /\ (flightCalls[c].pc \in {"loaded", "failed"}) ~> ~isLoadingFlightData
          /\ (shippingCalls[c].pc \in {"loaded", "failed"}) ~> ~isLoadingShippingData
    /\ [][ \A c \in Calls :
             /\ (flightCalls[c].pc = "failed" /\ flightCalls'[c].pc # "failed")
                   => (processedFlightMatrix' = NULL /\ ~isLoadingFlightData')
             /\ (shippingCalls[c].pc = "failed" /\ shippingCalls'[c].pc # "failed")
                   => (processedShippingMatrix' = NULL /\ ~isLoadingShippingData')
             /\ ( /\ flightCalls[c].pc = "idle" /\ flightCalls'[c].pc # "idle"
                  /\ processedFlightMatrix = NULL /\ ~isLoadingFlightData )
                   => ( /\ flightCalls'[c].pc = "fetch" /\ flightCalls'[c].fetches = 1
                        /\ isLoadingFlightData' )
             /\ ( /\ shippingCalls[c].pc = "idle" /\ shippingCalls'[c].pc # "idle"
                  /\ processedShippingMatrix = NULL /\ ~isLoadingShippingData )
                   => ( /\ shippingCalls'[c].pc = "fetch" /\ shippingCalls'[c].fetches = 1
                        /\ isLoadingShippingData' )
         ]_vars

\* C26's case: a flight load has failed and ended, and a later call has
\* started a new fetch
C26_Witness ==
    \E c1, c2 \in Calls :
        /\ c1 < c2
        /\ flightCalls[c1].load = "rejected" /\ flightCalls[c1].pc = "resolved"
        /\ flightCalls[c2].pc = "fetch" /\ flightCalls[c2].fetches = 1
        /\ isLoadingFlightData
        /\ processedFlightMatrix = NULL

\* C28: a step of a flight load leaves processedShippingMatrix,
\* isLoadingShippingData and the shipping calls as they are, and a step of a
\* shipping load leaves the flight ones; whether a call can begin depends on
\* its own calls only; and the step that ends a load caches what its own
\* loader returned, or null when that loader failed, whatever the other load
\* has done.
C28_CachesIndependent ==
    /\ [][ /\ (flightCalls' # flightCalls \/ isLoadingFlightData' # isLoadingFlightData
                \/ processedFlightMatrix' # processedFlightMatrix)
                 => UNCHANGED <<processedShippingMatrix, isLoadingShippingData, shippingCalls>>
           /\ (shippingCalls' # shippingCalls \/ isLoadingShippingData' # isLoadingShippingData
                \/ processedShippingMatrix' # processedShippingMatrix)
                 => UNCHANGED <<processedFlightMatrix, isLoadingFlightData, flightCalls>>
           /\ \A c \in Calls :
                 /\ (flightCalls[c].pc \in {"loaded", "failed"} /\ flightCalls'[c].pc = "resolved")
                       => /\ processedFlightMatrix' =
                                 IF flightCalls[c].load = "fulfilled"
                                 THEN flightCalls[c].result ELSE NULL
                          /\ ~isLoadingFlightData'
                 /\ (shippingCalls[c].pc \in {"loaded", "failed"}
                        /\ shippingCalls'[c].pc = "resolved")
                       => /\ processedShippingMatrix' =
                                 IF shippingCalls[c].load = "fulfilled"
                                 THEN shippingCalls[c].result ELSE NULL
                          /\ ~isLoadingShippingData'
         ]_vars
    /\ [](\A c \in Calls :
            /\ ENABLED initializeRealFlightData_call(c)
                  <=> ( /\ flightCalls[c].pc = "idle"
                        /\ \A earlier \in 1..(c - 1) : flightCalls[earlier].pc # "idle" )
            /\ ENABLED initializeRealShippingData_call(c)
                  <=> ( /\ shippingCalls[c].pc = "idle"
                        /\ \A earlier \in 1..(c - 1) : shippingCalls[earlier].pc # "idle" ))
    /\ [](/\ isLoadingFlightData <=> InFlight(flightCalls) # {}
                                      \/ \E c \in Calls : flightCalls[c].pc \in {"loaded", "failed"}
          /\ isLoadingShippingData <=> InFlight(shippingCalls) # {}
                                        \/ \E c \in Calls :
                                              shippingCalls[c].pc \in {"loaded", "failed"})

\* C28's case: the flight load has succeeded and is cached while the shipping
\* load, begun before the flight load ended, has failed and not yet ended
C28_Witness ==
    /\ processedFlightMatrix # NULL
    /\ \E c \in Calls : flightCalls[c].load = "fulfilled" /\ flightCalls[c].pc = "resolved"
    /\ \E c \in Calls : shippingCalls[c].pc = "failed"
    /\ isLoadingShippingData
    /\ costMatrix = NULL

----------------------------------------------------------------------------
(* Claims about the cache and its readers, checked under SpecRead *)

Fetches(calls) == SumOver(Calls, [c \in Calls |-> calls[c].fetches])

\* C24: once a matrix is cached, no call of an initialize function, of
\* generateCostMatrix or of a reader changes it, starts a fetch or sets the
\* loading flag again, for the flight cache and for the shipping cache.
C24_CachedForSession ==
    [][ /\ processedFlightMatrix # NULL =>
              /\ processedFlightMatrix' = processedFlightMatrix
              /\ Fetches(flightCalls') = Fetches(flightCalls)
              /\ ~isLoadingFlightData'
        /\ processedShippingMatrix # NULL =>
              /\ processedShippingMatrix' = processedShippingMatrix
              /\ Fetches(shippingCalls') = Fetches(shippingCalls)
              /\ ~isLoadingShippingData'
      ]_vars

\* C24's case: a load has cached the flight matrix, a later call of
\* initializeRealFlightData has returned without a fetch, a cost matrix has
\* been generated from the cache and a reader has returned statistics of it
C24_Witness ==
    /\ processedFlightMatrix # NULL
    /\ \E c1, c2 \in Calls :
          /\ c1 < c2
          /\ flightCalls[c1].load = "fulfilled" /\ flightCalls[c1].pc = "resolved"
          /\ flightCalls[c2].pc = "resolved" /\ flightCalls[c2].fetches = 0
    /\ costMatrix # NULL
    /\ \E t \in FlightTriples : costMatrix.flights[t[1]][t[2]][t[3]] > 0
    /\ returned # NULL
    /\ returned.function = "getFlightStatistics"
    /\ returned.value # NULL

----------------------------------------------------------------------------
(* Claims about the dashboard, checked under SpecDash *)

\* both async functions of the mount effect have ended and the component has
\* rendered with the state they set
DashboardSettled ==
    /\ dashboard.initFlightData = "done"
    /\ dashboard.initShippingData = "done"
    /\ dashboard.costMatrixDeps = <<dashboard.flightDataLoaded, dashboard.shippingDataLoaded>>
    /\ dashboard.costSummariesDeps = <<dashboard.flightDataLoaded>>

\* C27: once the flight load and the shipping load that the dashboard started
\* together have both completed and the dashboard has rendered, in either
\* order of completion and whether each succeeded or failed, the memoized
\* costMatrix is generateCostMatrix() and the memoized costSummaries is
\* generateCostSummaries() of the cache as it is then.
C27_MemosCurrent ==
    DashboardSettled =>
        /\ dashboard.costMatrix = generateCostMatrix
        /\ dashboard.costSummaries = generateCostSummaries

----------------------------------------------------------------------------
(* Claims about the routes table, checked under SpecTable *)

\* C30: after any sequence of search-term changes, column-filter changes,
\* clear-all-filters and page navigation the current page lies in
\* 1..max(1, totalPages) of the filtered data, and a filtered result that is
\* not empty is never shown as an empty page.
C30_PageInRange ==
    /\ table.currentPage >= 1
    /\ table.currentPage <= Max2(1, totalPages(table))
    /\ filteredData(table) # <<>> => paginatedData(table) # <<>>

====
